---------------------------- MODULE Spec2Model ----------------------------
(***************************************************************************)
(* Family-tree bot (Durbekjon/fam-tree): the merge coordinator             *)
(* (TreeMergeService), the ancestor matcher, the relation validator and    *)
(* the add-and-link dialogue of TelegramService, over the relational store *)
(* declared by the Prisma schema and its migrations.                       *)
(*                                                                         *)
(* Three specifications share the module:                                  *)
(*   Spec        - merge_with / confirm_merge handlers over the store      *)
(*   SpecMatcher - findSharedAncestors' comparison loop on bounded inputs  *)
(*   SpecAdd     - relation_X / text / select_member add dialogue          *)
(***************************************************************************)
EXTENDS Integers, Sequences, FiniteSets, TLC

VARIABLES
  \* ---- store and handlers of the merge workflow (Spec)
  db,        \* committed rows: trees, family_members, tree_merges, invites,
             \* tree_access
  pc,        \* per handler invocation: where it stands
  call,      \* per handler invocation: its arguments and locals
  tx,        \* per handler invocation: uncommitted writes of its $transaction
  result,    \* outcome of the handler invocation that finished last
  attempts,  \* per merge id: finished approveMerge calls of the recorded approver
             \* that the store did not interrupt
  now,       \* the clock new Date() reads, in days
  \* ---- ancestor matcher on explicit inputs (SpecMatcher)
  mSource, mTarget, mResult,
  \* ---- add dialogue (SpecAdd)
  fam,       \* family_members rows of the user
  rel,       \* _FamilyRelations rows: <<a, b>> iff b is in a.relatedTo
  ustate,    \* StateService.userStates entry of the user (NoState when absent)
  sel,       \* the select_member callback in flight between create and connect
  outcome,   \* what the last finished add-dialogue handler replied
  validated, \* arguments and result of the last validateRelationType call
  \* ---- tree views of a member list (SpecTextTree, SpecPdf)
  view       \* what the view built last returned

mergeVars   == <<db, pc, call, tx, result, attempts, now>>
matcherVars == <<mSource, mTarget, mResult>>
viewVars    == <<view>>
addVars     == <<fam, rel, ustate, sel, outcome, validated>>
vars        == <<db, pc, call, tx, result, attempts, now, mSource, mTarget, mResult,
                 fam, rel, ustate, sel, outcome, validated, view>>

-----------------------------------------------------------------------------
(* Bounds *)
MaxMembers == 2      \* family_members rows in the merge store
MaxMerges  == 1      \* tree_merges rows that requestMerge may create
MaxCalls   == 2      \* approveMerge calls by the recorded approver per record
MaxList    == 2      \* members per tree handed to the ancestor matcher
MaxFam     == 3      \* family_members rows of the user in the add dialogue
MaxInvites == 2      \* invites rows that createInvite may create
MaxDay     == 8      \* days the clock runs

NULL    == "NULL"                 \* a null column of type TEXT
NoRow   == [status |-> "NONE"]    \* no row under that primary key
NoYear  == << >>                  \* birthYear Int?: null
Year(y) == << y >>                \* birthYear Int?: the number y

TreeIds   == {"T1", "T2"}
UserIds   == {"u1", "u2"}
Procs     == {"p1", "p2"}
MemberIds == 1..MaxMembers
MergeIds  == 1..MaxMerges
InviteIds == 1..MaxInvites

\* MergeStatus enum
PENDING  == "PENDING"
APPROVED == "APPROVED"
REJECTED == "REJECTED"
MergeStatus == {PENDING, APPROVED, REJECTED}

\* (fullName, birthYear) of the persons the matcher is run on
Persons == { [fullName |-> "Ali",  birthYear |-> Year(1950)],
             [fullName |-> "Ali",  birthYear |-> Year(1951)],
             [fullName |-> "Ali",  birthYear |-> NoYear],
             [fullName |-> "Vali", birthYear |-> Year(1950)],
             [fullName |-> "Vali", birthYear |-> NoYear] }

-----------------------------------------------------------------------------
(* The store: rows and referential constraints                             *)

\* family_members rows with treeId = t, as findMany returns them (by id)
RECURSIVE RowsFrom(_, _, _)
RowsFrom(d, t, k) ==
  IF k > MaxMembers THEN << >>
  ELSE LET rest == RowsFrom(d, t, k + 1)
       IN  IF d.members[k].treeId = t
           THEN << [id |-> k, fullName |-> d.members[k].fullName,
                    birthYear |-> d.members[k].birthYear] >> \o rest
           ELSE rest

findMany(d, t) == RowsFrom(d, t, 1)

\* a primary key whose row was deleted (uuid keys are never used again)
Gone == [status |-> "DELETED"]

\* invites has a row under the id i
LiveInvite(d, i) == d.invites[i] # NoRow /\ d.invites[i] # Gone

\* (a mutant: no foreign key restricts the delete)
RestrictsNothing(d, t) == FALSE

\* tree_merges_sourceTreeId_fkey / tree_merges_targetTreeId_fkey, ON DELETE
\* RESTRICT: a tree referenced by a tree_merges row cannot be deleted
RestrictsTreeDelete(d, t) ==
  \/ \E m \in MergeIds : /\ d.merges[m] # NoRow
                         /\ (d.merges[m].sourceTreeId = t \/ d.merges[m].targetTreeId = t)
  \* invites_treeId_fkey and tree_access_treeId_fkey, ON DELETE RESTRICT
  \/ \E i \in InviteIds : LiveInvite(d, i) /\ d.invites[i].treeId = t
  \/ \E a \in d.access : a.treeId = t

\* uuid() default of TreeMerge.id: an id no row has used
FreeMergeIds(d) == { m \in MergeIds : d.merges[m] = NoRow }
NewMergeId(d)   == CHOOSE m \in FreeMergeIds(d) : \A n \in FreeMergeIds(d) : m <= n

-----------------------------------------------------------------------------
(* Ancestor matcher: TreeMergeService.findSharedAncestors                  *)

\* inner loop: one source member against targetMembers[j..]
RECURSIVE InnerLoop(_, _, _, _)
InnerLoop(sourceMember, targetMembers, j, acc) ==
  IF j > Len(targetMembers) THEN acc
  ELSE LET targetMember == targetMembers[j]
           hit == /\ sourceMember.fullName = targetMember.fullName
                  /\ sourceMember.birthYear = targetMember.birthYear
       IN  InnerLoop(sourceMember, targetMembers, j + 1,
                     IF hit THEN Append(acc, [sourceMember |-> sourceMember,
                                              targetMember |-> targetMember])
                            ELSE acc)

RECURSIVE OuterLoop(_, _, _, _)
OuterLoop(sourceMembers, targetMembers, i, acc) ==
  IF i > Len(sourceMembers) THEN acc
  ELSE OuterLoop(sourceMembers, targetMembers, i + 1,
                 InnerLoop(sourceMembers[i], targetMembers, 1, acc))

\* the comparison of the two fetched lists (a mutant compares names only)
sharedAncestorsByName(sourceMembers, targetMembers) ==
  LET RECURSIVE In(_, _, _) 
      In(s, j, acc) == IF j > Len(targetMembers) THEN acc
                       ELSE In(s, j + 1, IF s.fullName = targetMembers[j].fullName
                                         THEN Append(acc, [sourceMember |-> s,
                                                           targetMember |-> targetMembers[j]])
                                         ELSE acc)
      RECURSIVE Out(_, _)
      Out(i, acc) == IF i > Len(sourceMembers) THEN acc
                     ELSE Out(i + 1, In(sourceMembers[i], 1, acc))
  IN  Out(1, << >>)

sharedAncestors(sourceMembers, targetMembers) ==
  OuterLoop(sourceMembers, targetMembers, 1, << >>)

findSharedAncestors(d, sourceTreeId, targetTreeId) ==
  sharedAncestors(findMany(d, sourceTreeId), findMany(d, targetTreeId))

-----------------------------------------------------------------------------
(* Merge coordinator: TreeMergeService.requestMerge / approveMerge         *)

NoCall == [op |-> "none", user |-> NULL, source |-> NULL, target |-> NULL,
           mergeId |-> 0]
NoTx   == [statusSet |-> FALSE, moved |-> {}]

TxSteps == {"tx_status", "tx_members", "tx_delete"}

\* a mutant creates the record already APPROVED
requestMergeApproved(d, sourceTreeId, targetTreeId, requesterId, approverId) ==
  [d EXCEPT !.merges[NewMergeId(d)] =
     [sourceTreeId |-> sourceTreeId, targetTreeId |-> targetTreeId,
      requesterId |-> requesterId, approverId |-> approverId,
      status |-> APPROVED]]

\* prisma.treeMerge.create: the store after the insert
requestMerge(d, sourceTreeId, targetTreeId, requesterId, approverId) ==
  [d EXCEPT !.merges[NewMergeId(d)] =
     [sourceTreeId |-> sourceTreeId, targetTreeId |-> targetTreeId,
      requesterId |-> requesterId, approverId |-> approverId,
      status |-> PENDING]]

\* a mutant that takes a missing record for a foreign one
approveMergeCheckNoNotFound(merge, approverId) ==
  IF merge = NoRow THEN "UNAUTHORIZED"
  ELSE IF merge.approverId # approverId THEN "UNAUTHORIZED"
  ELSE IF merge.status # PENDING THEN "INVALID_STATE"
  ELSE "PASS"

\* a mutant without the approver comparison
approveMergeCheckNoApprover(merge, approverId) ==
  IF merge = NoRow THEN "NOT_FOUND"
  ELSE IF merge.status # PENDING THEN "INVALID_STATE"
  ELSE "PASS"

\* the three validations of approveMerge, in the order of the code
approveMergeCheck(merge, approverId) ==
  IF merge = NoRow THEN "NOT_FOUND"
  ELSE IF merge.approverId # approverId THEN "UNAUTHORIZED"
  ELSE IF merge.status # PENDING THEN "INVALID_STATE"
  ELSE "PASS"

\* the rows as the transaction of p sees them: committed rows and its own writes
TxView(d, p) ==
  [d EXCEPT
     !.merges = [m \in MergeIds |->
                   IF tx[p].statusSet /\ m = call[p].mergeId /\ d.merges[m] # NoRow
                   THEN [d.merges[m] EXCEPT !.status = APPROVED]
                   ELSE d.merges[m]],
     !.members = [k \in MemberIds |->
                   IF k \in tx[p].moved
                   THEN [d.members[k] EXCEPT !.treeId = call[p].target]
                   ELSE d.members[k]]]

\* DELETE FROM trees WHERE id = t; family_members_treeId_fkey is ON DELETE SET NULL
DeleteTree(d, t) ==
  [d EXCEPT !.trees = @ \ {t},
            !.members = [k \in MemberIds |->
                           IF d.members[k].treeId = t
                           THEN [d.members[k] EXCEPT !.treeId = NULL]
                           ELSE d.members[k]]]

\* rows written by another open transaction are locked until it ends
MergeRowLocked(p, m) ==
  \E q \in Procs \ {p} : pc[q] \in TxSteps /\ tx[q].statusSet /\ call[q].mergeId = m
MemberRowLocked(p, k) ==
  \E q \in Procs \ {p} : pc[q] \in TxSteps /\ k \in tx[q].moved

\* approveMerge calls on merge m that are inside their transaction
InTx(m) == { q \in Procs : pc[q] \in TxSteps /\ call[q].mergeId = m }
\* merge_with handlers that have yet to insert their record
Requesting == { q \in Procs : pc[q] = "mw_request" }

\* the caller's gate on the matcher's result (a mutant lets every pair through)
mergePermittedAlways(shared) == TRUE

\* merge_with: "if (sharedAncestors.length === 0) ... return"
mergePermitted(shared) == Len(shared) # 0

\* without the $transaction every statement that ran stays (a mutant)
RollbackNoTx(p) == db' = TxView(db, p)

\* $transaction rejects: nothing the callback wrote is kept
Rollback(p) == db' = db

\* approveMerge of p ends with outcome res: the promise resolves or rejects and
\* the confirm_merge callback replies
Finish(p, res) ==
  /\ pc' = [pc EXCEPT ![p] = "idle"]
  /\ call' = [call EXCEPT ![p] = NoCall]
  /\ tx' = [tx EXCEPT ![p] = NoTx]
  /\ result' = res
  /\ attempts' = IF /\ res # "STORE_FAILURE"
                    /\ db.merges[call[p].mergeId] # NoRow
                    /\ db.merges[call[p].mergeId].approverId = call[p].user
                 THEN [attempts EXCEPT ![call[p].mergeId] = @ + 1]
                 ELSE attempts

\* merge_with_<source>_<target> callback up to the gate: getUser,
\* findSharedAncestors, and the reply when no ancestor is shared
merge_with(p, u, s, t) ==
  /\ pc[p] = "idle"
  /\ s # t
  /\ LET sharedList == findSharedAncestors(db, s, t)
     IN  IF mergePermitted(sharedList)
         THEN /\ Cardinality(FreeMergeIds(db)) > Cardinality(Requesting)
              /\ pc' = [pc EXCEPT ![p] = "mw_request"]
              /\ call' = [call EXCEPT ![p] =
                            [NoCall EXCEPT !.op = "merge_with", !.user = u,
                                           !.source = s, !.target = t]]
              /\ result' = result
         ELSE /\ pc' = pc
              /\ call' = call
              /\ result' = "NO_SHARED_ANCESTORS"
  /\ UNCHANGED <<db, tx, attempts>>
  /\ UNCHANGED <<matcherVars, viewVars, addVars, now>>

\* merge_with callback, second half: requestMerge(source, target, user.id, user.id)
merge_with_request(p) ==
  /\ pc[p] = "mw_request"
  /\ IF {call[p].source, call[p].target} \subseteq db.trees
     THEN /\ db' = requestMerge(db, call[p].source, call[p].target,
                                call[p].user, call[p].user)
          /\ result' = "REQUESTED"
     ELSE /\ db' = db
          /\ result' = "REQUEST_REJECTED"
  /\ pc' = [pc EXCEPT ![p] = "idle"]
  /\ call' = [call EXCEPT ![p] = NoCall]
  /\ UNCHANGED <<tx, attempts>>
  /\ UNCHANGED <<matcherVars, viewVars, addVars, now>>

\* confirm_merge_<id> callback: getUser, then approveMerge(mergeId, user.id) up
\* to the start of the transaction (findUnique and the three validations)
confirm_merge(p, u, m) ==
  /\ pc[p] = "idle"
  /\ LET merge == db.merges[m]
         check == approveMergeCheck(merge, u)
         byApprover == merge # NoRow /\ merge.approverId = u
     IN  /\ byApprover => attempts[m] + Cardinality(InTx(m)) < MaxCalls
         /\ IF check = "PASS"
            THEN /\ pc' = [pc EXCEPT ![p] = "tx_status"]
                 /\ call' = [call EXCEPT ![p] =
                               [op |-> "confirm_merge", user |-> u, mergeId |-> m,
                                source |-> merge.sourceTreeId,
                                target |-> merge.targetTreeId]]
                 /\ result' = result
                 /\ attempts' = attempts
            ELSE /\ pc' = pc
                 /\ call' = call
                 /\ result' = check
                 /\ attempts' = IF byApprover THEN [attempts EXCEPT ![m] = @ + 1]
                                ELSE attempts
  /\ UNCHANGED <<db, tx>>
  /\ UNCHANGED <<matcherVars, viewVars, addVars, now>>

\* prisma.treeMerge.update({ status: APPROVED }) inside the transaction
tx_update_status(p) ==
  /\ pc[p] = "tx_status"
  /\ ~MergeRowLocked(p, call[p].mergeId)
  /\ IF db.merges[call[p].mergeId] = NoRow
     THEN Rollback(p) /\ Finish(p, "RECORD_NOT_FOUND")
     ELSE /\ tx' = [tx EXCEPT ![p].statusSet = TRUE]
          /\ pc' = [pc EXCEPT ![p] = "tx_members"]
          /\ UNCHANGED <<db, call, result, attempts>>
  /\ UNCHANGED <<matcherVars, viewVars, addVars, now>>

\* prisma.familyMember.updateMany({ where: treeId = source, data: treeId = target })
tx_update_members(p) ==
  /\ pc[p] = "tx_members"
  /\ LET matched == { k \in MemberIds : TxView(db, p).members[k].treeId = call[p].source }
     IN  /\ \A k \in matched : ~MemberRowLocked(p, k)
         /\ IF matched # {} /\ call[p].target \notin db.trees
            THEN Rollback(p) /\ Finish(p, "FK_VIOLATION")
            ELSE /\ tx' = [tx EXCEPT ![p].moved = matched]
                 /\ pc' = [pc EXCEPT ![p] = "tx_delete"]
                 /\ UNCHANGED <<db, call, result, attempts>>
  /\ UNCHANGED <<matcherVars, viewVars, addVars, now>>

\* prisma.tree.delete({ id: source }), then the commit of the transaction
tx_delete_tree(p) ==
  /\ pc[p] = "tx_delete"
  /\ IF call[p].source \notin db.trees
     THEN Rollback(p) /\ Finish(p, "RECORD_NOT_FOUND")
     ELSE IF RestrictsTreeDelete(TxView(db, p), call[p].source)
     THEN Rollback(p) /\ Finish(p, "FK_VIOLATION")
     ELSE /\ db' = DeleteTree(TxView(db, p), call[p].source)
          /\ Finish(p, "ok")
  /\ UNCHANGED <<matcherVars, viewVars, addVars, now>>

\* the store fails a statement of the transaction (connection loss, the
\* transaction's timeout): the $transaction promise rejects
tx_fail(p) ==
  /\ pc[p] \in TxSteps
  /\ Rollback(p)
  /\ Finish(p, "STORE_FAILURE")
  /\ UNCHANGED <<matcherVars, viewVars, addVars, now>>

-----------------------------------------------------------------------------
(* Values of the parts a specification does not use                        *)
\* StateService.userStates has no entry for the user
NoState == [action |-> "none"]

MatcherIdle == mSource = << >> /\ mTarget = << >> /\ mResult = << >>
NoView      == [kind |-> "none"]
ViewIdle    == view = NoView
AddIdle     == /\ fam = << >> /\ rel = {} /\ ustate = NoState
               /\ sel = << >> /\ outcome = "none" /\ validated = << >>
MergeIdle   == /\ db = [users |-> << >>, trees |-> {}, members |-> << >>, merges |-> << >>,
                        invites |-> << >>, access |-> {}]
               /\ pc = << >> /\ call = << >> /\ tx = << >> /\ result = "none"
               /\ attempts = << >> /\ now = 0

-----------------------------------------------------------------------------
(* Spec: the merge workflow                                                *)

\* family_members rows at the start: member 1 in tree T1, every further member
\* in either tree or in none (treeId null)
MergePersons == { [fullName |-> "Ali", birthYear |-> Year(1950)],
                  [fullName |-> "Vali", birthYear |-> NoYear] }

MemberRows(k) ==
  { [fullName |-> x.fullName, birthYear |-> x.birthYear, treeId |-> t] :
      x \in MergePersons,
      t \in IF k = 1 THEN {"T1"} ELSE TreeIds \cup {NULL} }

InitialMembers ==
  { f \in [MemberIds -> UNION { MemberRows(k) : k \in MemberIds }] :
      \A k \in MemberIds : f[k] \in MemberRows(k) }

Init ==
  /\ db \in [users : {<< >>}, trees : {TreeIds}, members : InitialMembers,
             merges : {[m \in MergeIds |-> NoRow]},
             invites : {[i \in InviteIds |-> NoRow]}, access : {{}}]
  /\ pc = [p \in Procs |-> "idle"]
  /\ call = [p \in Procs |-> NoCall]
  /\ tx = [p \in Procs |-> NoTx]
  /\ result = "none"
  /\ attempts = [m \in MergeIds |-> 0]
  /\ now = 0
  /\ MatcherIdle /\ ViewIdle /\ AddIdle

Next ==
  \/ \E p \in Procs, u \in UserIds, s \in TreeIds, t \in TreeIds : merge_with(p, u, s, t)
  \/ \E p \in Procs : merge_with_request(p)
  \/ \E p \in Procs, u \in UserIds, m \in MergeIds : confirm_merge(p, u, m)
  \/ \E p \in Procs : tx_update_status(p)
  \/ \E p \in Procs : tx_update_members(p)
  \/ \E p \in Procs : tx_delete_tree(p)
  \/ \E p \in Procs : tx_fail(p)

Spec == Init /\ [][Next]_vars

-----------------------------------------------------------------------------
(* Properties of the merge workflow (Spec)                                 *)

StatusOf(d, m) == d.merges[m].status
TreeOf(d, k)   == d.members[k].treeId

\* p's approveMerge leaves its transaction in this step
LeavesTx(p) == pc[p] \in TxSteps /\ pc'[p] = "idle"

\* the step applies the merge m in full, and only that
FullMerge(m) ==
  /\ StatusOf(db, m) = PENDING
  /\ db'.merges = [db.merges EXCEPT ![m].status = APPROVED]
  /\ \A k \in MemberIds :
       db'.members[k] = IF TreeOf(db, k) = db.merges[m].sourceTreeId
                        THEN [db.members[k] EXCEPT !.treeId = db.merges[m].targetTreeId]
                        ELSE db.members[k]
  /\ db'.trees = db.trees \ {db.merges[m].sourceTreeId}

\* the step inserts the tree_merges row m, and only that
Created(m) ==
  /\ db.merges[m] = NoRow
  /\ db'.merges[m] # NoRow
  /\ \A n \in MergeIds \ {m} : db'.merges[n] = db.merges[n]
  /\ db'.members = db.members
  /\ db'.trees = db.trees

\* C1: approveMerge(mergeId, approverId) on a PENDING merge by its recorded
\* approver succeeds; afterwards the status is APPROVED, every member of the
\* source tree is in the target tree and the source Tree row is gone (a failure
\* of the store itself set aside).
C1_ApproveMergeSucceeds ==
  [][\A p \in Procs :
       (LeavesTx(p) /\ result' # "STORE_FAILURE")
         => /\ result' = "ok"
            /\ StatusOf(db', call[p].mergeId) = APPROVED
            /\ \A k \in MemberIds :
                 TreeOf(db, k) = call[p].source => TreeOf(db', k) = call[p].target
            /\ call[p].source \notin db'.trees]_vars

\* C2: approveMerge is all-or-nothing. Every step leaves the committed rows as
\* they were, inserts one tree_merges row, or applies one merge in full (status
\* APPROVED, every source member reassigned, source tree deleted, all three);
\* an approveMerge that fails leaves the committed rows exactly as before.
C2_AllOrNothing ==
  [][/\ \/ db' = db
        \/ \E m \in MergeIds : Created(m)
        \/ \E m \in MergeIds : FullMerge(m)
     /\ \A p \in Procs : (LeavesTx(p) /\ result' # "ok") => db' = db]_vars

\* a transaction that had updated the status and the members failed at the
\* delete; the record is PENDING and the source tree still has its members
C2_Witness ==
  /\ result = "FK_VIOLATION"
  /\ \E m \in MergeIds :
       /\ StatusOf(db, m) = PENDING
       /\ db.merges[m].sourceTreeId \in db.trees
       /\ \E k \in MemberIds : TreeOf(db, k) = db.merges[m].sourceTreeId

\* C3: of two approveMerge calls with the same merge id and the recorded
\* approver, the second (made after the first has finished) fails with
\* INVALID_STATE and changes no member's treeId.
C3_SecondApproveInvalidState ==
  [][\A p \in Procs, u \in UserIds, m \in MergeIds :
       (/\ confirm_merge(p, u, m)
        /\ db.merges[m] # NoRow /\ db.merges[m].approverId = u
        /\ attempts[m] >= 1)
         => /\ result' = "INVALID_STATE"
            /\ pc'[p] = "idle"
            /\ db'.members = db.members]_vars

\* C4: approveMerge with an approver id other than the recorded approverId fails
\* with UNAUTHORIZED and leaves the status, every member's treeId and the trees
\* unchanged.
C4_WrongApproverUnauthorized ==
  [][\A p \in Procs, u \in UserIds, m \in MergeIds :
       (confirm_merge(p, u, m) /\ db.merges[m] # NoRow /\ db.merges[m].approverId # u)
         => /\ result' = "UNAUTHORIZED"
            /\ pc'[p] = "idle"
            /\ db' = db]_vars

\* a call by the wrong user was refused and the record is still PENDING
C4_Witness ==
  /\ result = "UNAUTHORIZED"
  /\ \E m \in MergeIds : StatusOf(db, m) = PENDING /\ attempts[m] = 0

\* C5: the status of a TreeMerge record changes only from PENDING to APPROVED or
\* from PENDING to REJECTED (a record starts as PENDING when it is inserted);
\* APPROVED and REJECTED records never change again.
C5_StatusTransitions ==
  [][\A m \in MergeIds :
       StatusOf(db', m) # StatusOf(db, m)
         => <<StatusOf(db, m), StatusOf(db', m)>> \in
              { <<"NONE", PENDING>>, <<PENDING, APPROVED>>, <<PENDING, REJECTED>> }]_vars

\* a record went through requestMerge and through finished approveMerge calls
C5_Witness ==
  \E m \in MergeIds : StatusOf(db, m) = PENDING /\ attempts[m] = MaxCalls

\* C6: a TreeMerge record is inserted only for a (source, target) pair for which
\* findSharedAncestors is non-empty, and it is inserted as PENDING; a pair with
\* no match is refused by merge_with and no record is created.
C6_RequestOnlyWithSharedAncestors ==
  [][/\ \A m \in MergeIds :
          (db.merges[m] = NoRow /\ db'.merges[m] # NoRow)
            => /\ Len(findSharedAncestors(db, db'.merges[m].sourceTreeId,
                                          db'.merges[m].targetTreeId)) > 0
               /\ StatusOf(db', m) = PENDING
     /\ \A p \in Procs, u \in UserIds, s \in TreeIds, t \in TreeIds :
          (merge_with(p, u, s, t) /\ Len(findSharedAncestors(db, s, t)) = 0)
            => result' = "NO_SHARED_ANCESTORS" /\ pc'[p] = "idle" /\ db' = db]_vars

\* a record was requested for a pair of trees that share an ancestor
C6_Witness ==
  /\ result = "REQUESTED"
  /\ \E m \in MergeIds :
       /\ db.merges[m] # NoRow
       /\ Len(findSharedAncestors(db, db.merges[m].sourceTreeId,
                                  db.merges[m].targetTreeId)) > 0

-----------------------------------------------------------------------------
(* SpecMatcher: findSharedAncestors on the members of two bounded trees    *)

\* the rows findMany returns for one tree: up to MaxList members, ids by tree
MemberLists(tree) ==
  UNION { { [i \in 1..n |-> [id |-> << tree, i >>, fullName |-> f[i].fullName,
                             birthYear |-> f[i].birthYear]] :
              f \in [1..n -> Persons] } : n \in 0..MaxList }

InitMatcher ==
  /\ mSource \in MemberLists("source")
  /\ mTarget \in MemberLists("target")
  /\ mResult = << >>
  /\ MergeIdle /\ AddIdle /\ ViewIdle

\* one call of findSharedAncestors on the two fetched lists
findSharedAncestorsCall ==
  /\ mResult = << >>
  /\ mResult' = << sharedAncestors(mSource, mTarget) >>
  /\ UNCHANGED <<mSource, mTarget>>
  /\ UNCHANGED mergeVars /\ UNCHANGED addVars /\ UNCHANGED viewVars

NextMatcher == findSharedAncestorsCall

SpecMatcher == InitMatcher /\ [][NextMatcher]_vars

\* the call has returned; its list
Returned == mResult # << >>
Shared   == mResult[1]

HasYear(member) == member.birthYear # NoYear

\* entries of the returned list made of source member i and target member j
EntriesOf(i, j) ==
  { e \in 1..Len(Shared) : /\ Shared[e].sourceMember = mSource[i]
                           /\ Shared[e].targetMember = mTarget[j] }

\* C7: findSharedAncestors never returns a pair whose members have no birth
\* year: equal names with both birth years null are not a match.
C7_NullNeverMatchesNull ==
  Returned =>
    \A e \in 1..Len(Shared) :
      HasYear(Shared[e].sourceMember) /\ HasYear(Shared[e].targetMember)

\* C8: for members whose birth years are present, the returned list holds
\* exactly one entry for each (source member, target member) pair with equal
\* fullName and equal birthYear and none for any other such pair; every entry
\* is a pair of the cross product with equal fullName and birthYear; and the
\* list is empty when no pair matches.
C8_ExactlyMatchingPairs ==
  Returned =>
    /\ \A i \in 1..Len(mSource), j \in 1..Len(mTarget) :
         (HasYear(mSource[i]) /\ HasYear(mTarget[j])) =>
           Cardinality(EntriesOf(i, j)) =
             IF /\ mSource[i].fullName = mTarget[j].fullName
                /\ mSource[i].birthYear = mTarget[j].birthYear
             THEN 1 ELSE 0
    /\ \A e \in 1..Len(Shared) :
         /\ \E i \in 1..Len(mSource) : Shared[e].sourceMember = mSource[i]
         /\ \E j \in 1..Len(mTarget) : Shared[e].targetMember = mTarget[j]
         /\ Shared[e].sourceMember.fullName = Shared[e].targetMember.fullName
         /\ Shared[e].sourceMember.birthYear = Shared[e].targetMember.birthYear
    /\ ( /\ \A i \in 1..Len(mSource) : HasYear(mSource[i])
         /\ \A j \in 1..Len(mTarget) : HasYear(mTarget[j])
         /\ \A i \in 1..Len(mSource), j \in 1..Len(mTarget) :
              \/ mSource[i].fullName # mTarget[j].fullName
              \/ mSource[i].birthYear # mTarget[j].birthYear )
       => Shared = << >>

\* a call on full trees whose members all have birth years, with a matching
\* pair, a pair of equal names and different years, and a pair of different
\* names, has returned
C8_Witness ==
  /\ Returned
  /\ Len(mSource) = MaxList /\ Len(mTarget) = MaxList
  /\ \A i \in 1..Len(mSource) : HasYear(mSource[i])
  /\ \A j \in 1..Len(mTarget) : HasYear(mTarget[j])
  /\ Len(Shared) >= 1
  /\ \E i \in 1..Len(mSource), j \in 1..Len(mTarget) :
       /\ mSource[i].fullName = mTarget[j].fullName
       /\ mSource[i].birthYear # mTarget[j].birthYear
  /\ \E i \in 1..Len(mSource), j \in 1..Len(mTarget) :
       mSource[i].fullName # mTarget[j].fullName

-----------------------------------------------------------------------------
(* Relation validator: TelegramService.validateRelationType                *)

\* RelationType enum
FATHER  == "FATHER"
MOTHER  == "MOTHER"
SIBLING == "SIBLING"
CHILD   == "CHILD"
SPOUSE  == "SPOUSE"
RelationType == {FATHER, MOTHER, SIBLING, CHILD, SPOUSE}

validCombinations ==
  [ FATHER  |-> << CHILD, MOTHER, SPOUSE >>,
    MOTHER  |-> << CHILD, FATHER, SPOUSE >>,
    CHILD   |-> << FATHER, MOTHER >>,
    SIBLING |-> << SIBLING >>,
    SPOUSE  |-> << FATHER, MOTHER >> ]

\* Array.prototype.includes
includes(list, x) == \E i \in 1..Len(list) : list[i] = x

\* (a mutant also accepts a new member of the existing member's type)
validateRelationTypeSameType(newRelationType, existingRelationType) ==
  \/ newRelationType = existingRelationType
  \/ IF newRelationType \in DOMAIN validCombinations
     THEN includes(validCombinations[newRelationType], existingRelationType)
     ELSE FALSE

\* validCombinations[newRelationType]?.includes(existingRelationType) || false
validateRelationType(newRelationType, existingRelationType) ==
  IF newRelationType \in DOMAIN validCombinations
  THEN includes(validCombinations[newRelationType], existingRelationType)
  ELSE FALSE

-----------------------------------------------------------------------------
(* Dialogue state: StateService                                            *)

Undefined == << >>            \* an absent property of UserStateData
Some(v)   == << v >>
DataKeys  == {"name", "birthYear", "relationType"}

\* the state setState starts from when the user has none
DefaultState ==
  [action |-> "searching", step |-> "enter_name",
   data |-> [k \in DataKeys |-> Undefined]]

\* setState: the given properties replace the current ones, data merged by key
setState(us, patch) ==
  LET currentState == IF us = NoState THEN DefaultState ELSE us
  IN  [action |-> IF "action" \in DOMAIN patch THEN patch.action
                  ELSE currentState.action,
       step   |-> IF "step" \in DOMAIN patch THEN patch.step
                  ELSE currentState.step,
       data   |-> [k \in DataKeys |->
                     IF "data" \in DOMAIN patch /\ k \in DOMAIN patch.data
                     THEN patch.data[k] ELSE currentState.data[k]]]

\* clearState
clearState == NoState

\* ...state?.data of a handler that spreads the current data into its patch
SpreadData(us) == IF us = NoState THEN [k \in {} |-> Undefined] ELSE us.data

-----------------------------------------------------------------------------
(* Birth-year input: parseInt and the range check                          *)

MinYear     == 1900   \* birthYear < 1900 is refused
CurrentYear == 2026   \* new Date().getFullYear()

NaN == << >>
DigitValue ==
  ("0" :> 0) @@ ("1" :> 1) @@ ("2" :> 2) @@ ("3" :> 3) @@ ("4" :> 4) @@
  ("5" :> 5) @@ ("6" :> 6) @@ ("7" :> 7) @@ ("8" :> 8) @@ ("9" :> 9)
WhiteSpace == {" "}

\* index of the first character of text at or after i that is no white space
RECURSIVE SkipWhiteSpace(_, _)
SkipWhiteSpace(text, i) ==
  IF i <= Len(text) /\ text[i] \in WhiteSpace THEN SkipWhiteSpace(text, i + 1)
  ELSE i

\* value of the longest run of decimal digits of text starting at i
RECURSIVE ParseDigits(_, _, _)
ParseDigits(text, i, acc) ==
  IF i <= Len(text) /\ text[i] \in DOMAIN DigitValue
  THEN ParseDigits(text, i + 1, acc * 10 + DigitValue[text[i]])
  ELSE acc

\* parseInt(text) on decimal input: leading white space, an optional sign,
\* then the longest digit prefix; NaN when there is no digit
parseInt(text) ==
  LET s      == SkipWhiteSpace(text, 1)
      signed == s <= Len(text) /\ text[s] \in {"+", "-"}
      d      == IF signed THEN s + 1 ELSE s
  IN  IF d <= Len(text) /\ text[d] \in DOMAIN DigitValue
      THEN Some((IF signed /\ text[s] = "-" THEN -1 ELSE 1) * ParseDigits(text, d, 0))
      ELSE NaN

\* (a mutant without the lower bound)
InvalidYearNoLowerBound(birthYear) ==
  \/ birthYear = NaN
  \/ birthYear[1] > CurrentYear

\* isNaN(birthYear) || birthYear < 1900 || birthYear > new Date().getFullYear()
InvalidYear(birthYear) ==
  \/ birthYear = NaN
  \/ birthYear[1] < MinYear
  \/ birthYear[1] > CurrentYear

\* texts the user sends
NameTexts == {"Ali"}
YearTexts == { << "1", "9", "5", "0" >>,
               << " ", "1", "9", "5", "0", "a", "b", "c" >>,
               << "a", "b", "c" >>,
               << "-", "1", "9", "5", "0" >>,
               << "1", "8", "9", "9" >>,
               << "2", "0", "2", "7" >> }

-----------------------------------------------------------------------------
(* The user's family: family_members rows and _FamilyRelations             *)

FamIds == 1..MaxFam

\* the two sides of the implicit many-to-many relation "FamilyRelations":
\* <<a, b>> \in r iff b is in a.relatedTo iff a is in b.relatedFrom
relatedTo(r, a)   == { b \in FamIds : << a, b >> \in r }
relatedFrom(r, b) == { a \in FamIds : << a, b >> \in r }

\* selectedMember.relatedTo.find(r => r.relationType === relationType &&
\*   r.fullName === stateData.name && r.birthYear === stateData.birthYear)
existingRelation(f, r, selectedMemberId, data) ==
  { k \in relatedTo(r, selectedMemberId) :
      /\ Some(f[k].relationType) = data.relationType
      /\ Some(f[k].fullName) = data.name
      /\ f[k].birthYear = data.birthYear }

\* the row familyMember.create inserts from the dialogue's data; the data
\* names no tree, so the treeId column is null
NewMember(data, birthYear) ==
  [fullName |-> data.name[1], birthYear |-> birthYear,
   relationType |-> data.relationType[1], treeId |-> NULL]

\* state guard of the select_member callback
StateComplete(us) ==
  /\ us # NoState
  /\ us.action = "adding_member"
  /\ us.data.name # Undefined
  /\ us.data.birthYear # Undefined
  /\ us.data.relationType # Undefined

-----------------------------------------------------------------------------
(* SpecAdd: the add-and-link dialogue of one user                          *)

NoSel == << >>      \* no select_member callback between its two writes

\* a handler other than select_member replies: no validator call is pending
Reply(r) == outcome' = r /\ validated' = << >>

\* /add_(.+)/ callback: RelationType[match[1].toUpperCase()], undefined for
\* any word that is no relation type (add_new)
add_callback(word) ==
  /\ sel = NoSel
  /\ ustate' = setState(ustate,
                 [action |-> "adding_member", step |-> "enter_name",
                  data |-> [relationType |->
                              IF word \in RelationType THEN Some(word)
                              ELSE Undefined]])
  /\ Reply("ASK_NAME")
  /\ UNCHANGED <<fam, rel, sel>>
  /\ UNCHANGED mergeVars /\ UNCHANGED matcherVars /\ UNCHANGED viewVars

\* relation_X callback
relation_callback(relationType) ==
  /\ sel = NoSel
  /\ ustate' = setState(ustate,
                 [action |-> "adding_member", step |-> "enter_name",
                  data |-> [k \in DOMAIN SpreadData(ustate) \cup {"relationType"} |->
                              IF k = "relationType" THEN Some(relationType)
                              ELSE SpreadData(ustate)[k]]])
  /\ Reply("ASK_NAME")
  /\ UNCHANGED <<fam, rel, sel>>
  /\ UNCHANGED mergeVars /\ UNCHANGED matcherVars /\ UNCHANGED viewVars

Adding == ustate # NoState /\ ustate.action = "adding_member"

\* text handler, step enter_name: handleNameInput
handleNameInput(text) ==
  /\ sel = NoSel
  /\ Adding /\ ustate.step = "enter_name"
  /\ IF ustate.data.relationType = Undefined
     THEN /\ Reply("RELATION_MISSING")
          /\ UNCHANGED ustate
     ELSE /\ ustate' = setState(ustate,
                         [action |-> "adding_member", step |-> "enter_birth_year",
                          data |-> [k \in DataKeys |->
                                      IF k = "name" THEN Some(text)
                                      ELSE ustate.data[k]]])
          /\ Reply("ASK_YEAR")
  /\ UNCHANGED <<fam, rel, sel>>
  /\ UNCHANGED mergeVars /\ UNCHANGED matcherVars /\ UNCHANGED viewVars

\* text handler, step enter_birth_year: handleBirthYearInput
handleBirthYearInput(text) ==
  /\ sel = NoSel
  /\ Adding /\ ustate.step = "enter_birth_year"
  /\ LET birthYear == parseInt(text)
     IN  IF ustate.data.relationType = Undefined
         THEN /\ Reply("RELATION_MISSING")
              /\ UNCHANGED <<ustate, fam>>
         ELSE IF InvalidYear(birthYear)
         THEN /\ Reply("INVALID_YEAR")
              /\ UNCHANGED <<ustate, fam>>
         ELSE IF Len(fam) = 0
         THEN \* the first family member is created without relation
              IF ustate.data.name = Undefined
              THEN /\ Reply("ERROR")
                   /\ UNCHANGED <<ustate, fam>>
              ELSE /\ fam' = Append(fam, NewMember(ustate.data, birthYear))
                   /\ ustate' = clearState
                   /\ Reply("CREATED_FIRST")
         ELSE /\ ustate' = setState(ustate,
                             [action |-> "adding_member",
                              step |-> "select_related_member",
                              data |-> [k \in DataKeys |->
                                          IF k = "birthYear" THEN birthYear
                                          ELSE ustate.data[k]]])
              /\ Reply("ASK_MEMBER")
              /\ UNCHANGED fam
  /\ UNCHANGED <<rel, sel>>
  /\ UNCHANGED mergeVars /\ UNCHANGED matcherVars /\ UNCHANGED viewVars

\* text handler, no dialogue or any other step: the message is dropped
text_ignored ==
  /\ sel = NoSel
  /\ ~(Adding /\ ustate.step \in {"enter_name", "enter_birth_year"})
  /\ Reply("IGNORED")
  /\ UNCHANGED <<fam, rel, ustate, sel>>
  /\ UNCHANGED mergeVars /\ UNCHANGED matcherVars /\ UNCHANGED viewVars

\* select_member callback up to familyMember.create
select_member(selectedMemberId) ==
  /\ sel = NoSel
  /\ IF ~StateComplete(ustate)
     THEN /\ Reply("STATE_ERROR")
          /\ UNCHANGED <<fam, sel>>
     ELSE IF selectedMemberId \notin 1..Len(fam)
     THEN /\ Reply("MEMBER_NOT_FOUND")
          /\ UNCHANGED <<fam, sel>>
     ELSE IF existingRelation(fam, rel, selectedMemberId, ustate.data) # {}
     THEN /\ Reply("DUPLICATE_RELATION")
          /\ UNCHANGED <<fam, sel>>
     ELSE LET newType == ustate.data.relationType[1]
              oldType == fam[selectedMemberId].relationType
              isValid == validateRelationType(newType, oldType)
          IN  /\ validated' = << [newRelationType |-> newType,
                                  existingRelationType |-> oldType,
                                  isValid |-> isValid] >>
              /\ IF ~isValid
                 THEN /\ outcome' = "INVALID_RELATION"
                      /\ UNCHANGED <<fam, sel>>
                 ELSE /\ Len(fam) < MaxFam
                      /\ fam' = Append(fam, NewMember(ustate.data,
                                                      ustate.data.birthYear))
                      /\ sel' = << [newMember |-> Len(fam) + 1,
                                    selectedMemberId |-> selectedMemberId] >>
                      /\ outcome' = "pending"
  /\ UNCHANGED <<rel, ustate>>
  /\ UNCHANGED mergeVars /\ UNCHANGED matcherVars /\ UNCHANGED viewVars

\* (a mutant: the link is stored from both sides)
connectBothSides(r, newMember, selectedMemberId) ==
  r \cup { << newMember, selectedMemberId >>, << selectedMemberId, newMember >> }

\* (a mutant: the link points at a row that is not stored)
connectToMissing(r, newMember, selectedMemberId) ==
  r \cup { << newMember, newMember + 1 >> }

\* update where id = newMember.id, relatedTo: { connect: { id: selectedMemberId } }:
\* one row (A, B) of "_FamilyRelations", whose primary key is (A, B)
connect(r, newMember, selectedMemberId) ==
  r \cup { << newMember, selectedMemberId >> }

\* select_member callback: update ... relatedTo: { connect }, then clearState
select_member_connect ==
  /\ sel # NoSel
  /\ rel' = connect(rel, sel[1].newMember, sel[1].selectedMemberId)
  /\ ustate' = clearState
  /\ sel' = NoSel
  /\ outcome' = "LINKED"
  /\ UNCHANGED <<fam, validated>>
  /\ UNCHANGED mergeVars /\ UNCHANGED matcherVars /\ UNCHANGED viewVars

\* select_member callback: the update rejects; the catch block replies
select_member_fail ==
  /\ sel # NoSel
  /\ sel' = NoSel
  /\ outcome' = "ERROR"
  /\ UNCHANGED <<fam, rel, ustate, validated>>
  /\ UNCHANGED mergeVars /\ UNCHANGED matcherVars /\ UNCHANGED viewVars

InitAdd ==
  /\ fam = << >> /\ rel = {} /\ ustate = NoState
  /\ sel = NoSel /\ outcome = "none" /\ validated = << >>
  /\ MergeIdle /\ MatcherIdle /\ ViewIdle

NextAdd ==
  \/ \E word \in RelationType \cup {"NEW"} : add_callback(word)
  \/ \E relationType \in RelationType : relation_callback(relationType)
  \/ \E text \in NameTexts : handleNameInput(text)
  \/ \E text \in YearTexts : handleBirthYearInput(text)
  \/ text_ignored
  \/ \E selectedMemberId \in FamIds \cup {MaxFam + 1} : select_member(selectedMemberId)
  \/ select_member_connect
  \/ select_member_fail

SpecAdd == InitAdd /\ [][NextAdd]_vars

-----------------------------------------------------------------------------
(* Properties of the add dialogue (SpecAdd)                                *)

\* the compatibility table, as pairs <<newType, existingType>>
CompatibilityTable ==
  { << FATHER, CHILD >>,  << FATHER, MOTHER >>, << FATHER, SPOUSE >>,
    << MOTHER, CHILD >>,  << MOTHER, FATHER >>, << MOTHER, SPOUSE >>,
    << CHILD, FATHER >>,  << CHILD, MOTHER >>,
    << SIBLING, SIBLING >>,
    << SPOUSE, FATHER >>, << SPOUSE, MOTHER >> }

\* C9: for all 25 (newType, existingType) pairs of RelationType the validator
\* returns true exactly for the pairs of the compatibility table and false for
\* every other pair; so does every call the select_member callback makes.
C9_ValidatorIsTable ==
  /\ \A n \in RelationType, e \in RelationType :
       validateRelationType(n, e) <=> << n, e >> \in CompatibilityTable
  /\ validated # << >> =>
       /\ validated[1].newRelationType \in RelationType
       /\ validated[1].existingRelationType \in RelationType
       /\ validated[1].isValid <=>
            << validated[1].newRelationType,
               validated[1].existingRelationType >> \in CompatibilityTable

\* the select_member callback has had a SIBLING refused against a CHILD, with
\* a member of the user accepted against another before
C9_Witness ==
  /\ validated # << >>
  /\ validated[1].newRelationType = SIBLING
  /\ validated[1].existingRelationType = CHILD
  /\ ~validated[1].isValid
  /\ outcome = "INVALID_RELATION"
  /\ rel # {}

\* member k carries the triple of the dialogue's data
SameTriple(k, data) ==
  /\ Some(fam[k].relationType) = data.relationType
  /\ Some(fam[k].fullName) = data.name
  /\ fam[k].birthYear = data.birthYear

\* C10: when a member with the same (relationType, fullName, birthYear) was
\* already inserted and linked to the selected member by an earlier pass of
\* the dialogue, select_member replies DUPLICATE_RELATION and creates no
\* member and no edge.
C10_DuplicateRejected ==
  [][\A selectedMemberId \in FamIds :
       ( /\ select_member(selectedMemberId)
         /\ StateComplete(ustate)
         /\ selectedMemberId \in 1..Len(fam)
         /\ \E k \in 1..Len(fam) : /\ << k, selectedMemberId >> \in rel
                                   /\ SameTriple(k, ustate.data) )
       => /\ outcome' = "DUPLICATE_RELATION"
          /\ fam' = fam /\ rel' = rel /\ sel' = NoSel]_vars

\* the duplicate check does fire: the selected member's own relatedTo holds a
\* member with the dialogue's triple
DuplicateReplied == outcome = "DUPLICATE_RELATION"

\* the select_member callback is about to decide on a pair of relation types:
\* its state is complete, the selected member exists and is no duplicate
Deciding(selectedMemberId) ==
  /\ StateComplete(ustate)
  /\ selectedMemberId \in 1..Len(fam)
  /\ existingRelation(fam, rel, selectedMemberId, ustate.data) = {}

\* C11: when the new member's relation type is not compatible with the
\* relation type of the member it is attached to, the add is refused: the
\* callback replies INVALID_RELATION, creates no member and no edge and leaves
\* the store as it was.
C11_IncompatibleRefused ==
  [][\A selectedMemberId \in FamIds :
       ( /\ select_member(selectedMemberId)
         /\ Deciding(selectedMemberId)
         /\ << ustate.data.relationType[1],
               fam[selectedMemberId].relationType >> \notin CompatibilityTable )
       => /\ outcome' = "INVALID_RELATION"
          /\ fam' = fam /\ rel' = rel /\ sel' = NoSel /\ db' = db]_vars

\* a CHILD was refused against a SIBLING while the user has linked members
C11_Witness ==
  /\ outcome = "INVALID_RELATION"
  /\ validated # << >>
  /\ validated[1].newRelationType = CHILD
  /\ validated[1].existingRelationType = SIBLING
  /\ Len(fam) >= 2 /\ rel # {}

\* C12: adding a member together with its edge is transactional: once no
\* select_member callback is between its two writes, every member that was
\* created by the callback (every member but the user's first) has the edge
\* to a member it was attached to, also when the edge-creation step failed.
C12_MemberNeverWithoutEdge ==
  sel = NoSel => \A k \in 2..Len(fam) : relatedTo(rel, k) # {}

-----------------------------------------------------------------------------
(* Further properties of the merge workflow (Spec)                         *)

\* ids of the family_members rows of tree t
TreeMembers(d, t) == { k \in DOMAIN d.members : TreeOf(d, k) = t }

\* C13: a merge only relocates members and never collapses duplicate persons:
\* an approveMerge of a PENDING record by its approver (a failure of the store
\* itself set aside) creates and deletes no member, changes no name and no
\* birth year, leaves every relation edge as it was, and the target tree
\* afterwards holds exactly its original members plus all members of the
\* source tree.
C13_MergeOnlyRelocates ==
  [][\A p \in Procs :
       (LeavesTx(p) /\ result' # "STORE_FAILURE")
         => /\ DOMAIN db'.members = DOMAIN db.members
            /\ \A k \in DOMAIN db.members :
                 /\ db'.members[k].fullName = db.members[k].fullName
                 /\ db'.members[k].birthYear = db.members[k].birthYear
            /\ rel' = rel
            /\ TreeMembers(db', call[p].target) =
                 TreeMembers(db, call[p].target) \cup TreeMembers(db, call[p].source)]_vars

-----------------------------------------------------------------------------
(* SpecDependents: the merge workflow over trees that have invites and     *)
(* access grants attached                                                  *)

InviteDays == 7     \* createInvite: expiresAt is 7 days after creation

\* TreeRole enum
VIEWER == "VIEWER"
EDITOR == "EDITOR"
ADMIN  == "ADMIN"
TreeRole == {VIEWER, EDITOR, ADMIN}

\* one member per id, the same person in alternating trees
DependentsMembers ==
  [k \in MemberIds |->
     [fullName |-> "Ali", birthYear |-> Year(1950),
      treeId |-> IF k % 2 = 1 THEN "T1" ELSE "T2"]]

\* invites and tree_access rows that exist before the merge is requested
InitialInvites ==
  { f \in [InviteIds -> {NoRow} \cup
                         [treeId : TreeIds, role : {VIEWER}, expiresAt : {InviteDays}]] :
      \A i \in InviteIds : i > 1 => f[i] = NoRow }
InitialAccess ==
  SUBSET { [treeId |-> "T1", userId |-> "u2", role |-> EDITOR],
           [treeId |-> "T2", userId |-> "u1", role |-> ADMIN] }

InitDependents ==
  /\ db \in [users : {<< >>}, trees : {TreeIds}, members : {DependentsMembers},
             merges : {[m \in MergeIds |-> NoRow]},
             invites : InitialInvites, access : InitialAccess]
  /\ pc = [p \in Procs |-> "idle"]
  /\ call = [p \in Procs |-> NoCall]
  /\ tx = [p \in Procs |-> NoTx]
  /\ result = "none"
  /\ attempts = [m \in MergeIds |-> 0]
  /\ now = 0
  /\ MatcherIdle /\ ViewIdle /\ AddIdle

SpecDependents == InitDependents /\ [][Next]_vars

\* C14: merging never leaves orphaned rows: in every reachable state every
\* invites, tree_access and tree_merges row refers to a tree that exists, also
\* when the source tree has invites, access grants and merge records attached
\* when the merge is approved.
C14_NoOrphanedRows ==
  /\ \A i \in InviteIds : LiveInvite(db, i) => db.invites[i].treeId \in db.trees
  /\ \A a \in db.access : a.treeId \in db.trees
  /\ \A m \in MergeIds :
       db.merges[m] # NoRow => /\ db.merges[m].sourceTreeId \in db.trees
                               /\ db.merges[m].targetTreeId \in db.trees

\* an approveMerge has ended on a source tree that has an invite, an access
\* grant and the merge record attached
C14_Witness ==
  /\ result = "FK_VIOLATION"
  /\ \E m \in MergeIds :
       /\ db.merges[m] # NoRow
       /\ attempts[m] >= 1
       /\ \E i \in InviteIds : /\ LiveInvite(db, i)
                                /\ db.invites[i].treeId = db.merges[m].sourceTreeId
       /\ \E a \in db.access : a.treeId = db.merges[m].sourceTreeId

-----------------------------------------------------------------------------
(* SpecAddWired: the add dialogue as the text handler is wired now, through *)
(* AddCommandHandler                                                        *)

\* showRelationSelectionMenu: the dialogue goes back to the relation menu
showRelationSelectionMenu(us) ==
  setState(us, [action |-> "adding_member", step |-> "select_relation",
                data |-> [k \in {} |-> Undefined]])

\* /add command: AddCommandHandler.handle
add_command ==
  /\ sel = NoSel
  /\ ustate' = showRelationSelectionMenu(
                 setState(ustate, [action |-> "adding_member",
                                   step |-> "select_relation",
                                   data |-> [k \in {} |-> Undefined]]))
  /\ Reply("ASK_RELATION")
  /\ UNCHANGED <<fam, rel, sel>>
  /\ UNCHANGED mergeVars /\ UNCHANGED matcherVars /\ UNCHANGED viewVars

\* text handler, step enter_name: AddCommandHandler.handleNameInput
AddCommandHandler_handleNameInput(name) ==
  /\ sel = NoSel
  /\ Adding /\ ustate.step = "enter_name"
  /\ IF ustate.data.relationType = Undefined
     THEN /\ ustate' = showRelationSelectionMenu(ustate)
          /\ Reply("ASK_RELATION")
     ELSE /\ ustate' = setState(ustate,
                         [action |-> "adding_member", step |-> "enter_birth_year",
                          data |-> [k \in DataKeys |->
                                      IF k = "name" THEN Some(name)
                                      ELSE ustate.data[k]]])
          /\ Reply("ASK_YEAR")
  /\ UNCHANGED <<fam, rel, sel>>
  /\ UNCHANGED mergeVars /\ UNCHANGED matcherVars /\ UNCHANGED viewVars

\* text handler, step enter_birth_year: AddCommandHandler.handleBirthYearInput
AddCommandHandler_handleBirthYearInput(birthYear) ==
  /\ sel = NoSel
  /\ Adding /\ ustate.step = "enter_birth_year"
  /\ LET year == parseInt(birthYear)
     IN  IF ustate.data.relationType = Undefined \/ ustate.data.name = Undefined
         THEN /\ ustate' = showRelationSelectionMenu(ustate)
              /\ Reply("ASK_RELATION")
              /\ UNCHANGED fam
         ELSE IF InvalidYear(year)
         THEN /\ Reply("INVALID_YEAR")
              /\ UNCHANGED <<ustate, fam>>
         ELSE \* the family member is created, whatever members the user has
              /\ Len(fam) < MaxFam
              /\ fam' = Append(fam, NewMember(ustate.data, year))
              /\ ustate' = clearState
              /\ Reply("CREATED")
  /\ UNCHANGED <<rel, sel>>
  /\ UNCHANGED mergeVars /\ UNCHANGED matcherVars /\ UNCHANGED viewVars

NextAddWired ==
  \/ add_command
  \/ \E word \in RelationType \cup {"NEW"} : add_callback(word)
  \/ \E relationType \in RelationType : relation_callback(relationType)
  \/ \E name \in NameTexts : AddCommandHandler_handleNameInput(name)
  \/ \E birthYear \in YearTexts : AddCommandHandler_handleBirthYearInput(birthYear)
  \/ text_ignored
  \/ \E selectedMemberId \in FamIds \cup {MaxFam + 1} : select_member(selectedMemberId)

SpecAddWired == InitAdd /\ [][NextAddWired]_vars

\* C15: a user's first member creates an implicit tree: once the first member
\* of the user exists, a Tree exists and the member's treeId refers to it.
C15_FirstMemberCreatesTree ==
  Len(fam) >= 1 => /\ fam[1].treeId # NULL
                   /\ fam[1].treeId \in db.trees

\* C19: whenever the user already has a member, the dialogue inserts a new
\* member only in a step in which the relation validator has accepted the pair
\* (new member's relation type, relation type of an existing member).
C19_InsertOnlyAfterValidation ==
  [][(Len(fam) >= 1 /\ Len(fam') > Len(fam))
       => /\ validated' # << >>
          /\ validated'[1].isValid
          /\ validated'[1].newRelationType = fam'[Len(fam')].relationType
          /\ \E k \in 1..Len(fam) :
               fam[k].relationType = validated'[1].existingRelationType]_vars

-----------------------------------------------------------------------------
(* SpecInvite: InviteService.createInvite and acceptInvite                 *)

\* uuid() default of Invite.id: an id no row has used
FreeInviteIds(d) == { i \in InviteIds : d.invites[i] = NoRow }
NewInviteId(d)   == CHOOSE i \in FreeInviteIds(d) : \A j \in FreeInviteIds(d) : i <= j

\* tree_access_treeId_userId_key: one row per (treeId, userId)
HasAccess(d, treeId, userId) ==
  \E a \in d.access : a.treeId = treeId /\ a.userId = userId

\* createInvite: expiresAt = today + 7 days, invite.create
createInvite(d, treeId, role, today) ==
  [d EXCEPT !.invites[NewInviteId(d)] =
     [treeId |-> treeId, role |-> role, expiresAt |-> today + InviteDays]]

\* (a mutant: an invite is still accepted on the day after its expiry)
acceptInviteCheckLate(invite, today) ==
  IF invite = NoRow \/ invite = Gone THEN "NOT_FOUND"
  ELSE IF invite.expiresAt + 1 < today THEN "EXPIRED"
  ELSE "PASS"

\* acceptInvite: findUnique, 'Invite not found', 'Invite has expired'
acceptInviteCheck(invite, today) ==
  IF invite = NoRow \/ invite = Gone THEN "NOT_FOUND"
  ELSE IF invite.expiresAt < today THEN "EXPIRED"
  ELSE "PASS"

\* invite.delete where id
DeleteInvite(d, i) == [d EXCEPT !.invites[i] = Gone]

\* invite_tree callback: createInvite(treeId) with the default role, or a
\* call of the service with a role
create_invite(treeId, role) ==
  /\ FreeInviteIds(db) # {}
  /\ now + InviteDays <= MaxDay
  /\ treeId \in db.trees
  /\ db' = createInvite(db, treeId, role, now)
  /\ result' = "INVITED"
  /\ UNCHANGED <<pc, call, tx, attempts, now>>
  /\ UNCHANGED <<matcherVars, viewVars, addVars>>

\* acceptInvite up to the expiry check
accept_invite(p, inviteId, userId) ==
  /\ pc[p] = "idle"
  /\ LET check == acceptInviteCheck(db.invites[inviteId], now)
     IN  IF check = "PASS"
         THEN /\ pc' = [pc EXCEPT ![p] = "ai_create"]
              /\ call' = [call EXCEPT ![p] =
                            [op |-> "acceptInvite", user |-> userId,
                             inviteId |-> inviteId,
                             treeId |-> db.invites[inviteId].treeId,
                             role |-> db.invites[inviteId].role]]
              /\ UNCHANGED result
         ELSE /\ result' = check
              /\ UNCHANGED <<pc, call>>
  /\ UNCHANGED <<db, tx, attempts, now>>
  /\ UNCHANGED <<matcherVars, viewVars, addVars>>

\* acceptInvite: treeAccess.create
accept_invite_create(p) ==
  /\ pc[p] = "ai_create"
  /\ IF HasAccess(db, call[p].treeId, call[p].user)
     THEN \* unique constraint tree_access_treeId_userId_key
          /\ result' = "UNIQUE_VIOLATION"
          /\ pc' = [pc EXCEPT ![p] = "idle"]
          /\ call' = [call EXCEPT ![p] = NoCall]
          /\ UNCHANGED db
     ELSE /\ db' = [db EXCEPT !.access = @ \cup
                      { [treeId |-> call[p].treeId, userId |-> call[p].user,
                         role |-> call[p].role] }]
          /\ pc' = [pc EXCEPT ![p] = "ai_delete"]
          /\ UNCHANGED <<call, result>>
  /\ UNCHANGED <<tx, attempts, now>>
  /\ UNCHANGED <<matcherVars, viewVars, addVars>>

\* acceptInvite: invite.delete, return true
accept_invite_delete(p) ==
  /\ pc[p] = "ai_delete"
  /\ IF LiveInvite(db, call[p].inviteId)
     THEN /\ db' = DeleteInvite(db, call[p].inviteId)
          /\ result' = "ok"
     ELSE \* the row is gone already: record to delete does not exist
          /\ result' = "RECORD_NOT_FOUND"
          /\ UNCHANGED db
  /\ pc' = [pc EXCEPT ![p] = "idle"]
  /\ call' = [call EXCEPT ![p] = NoCall]
  /\ UNCHANGED <<tx, attempts, now>>
  /\ UNCHANGED <<matcherVars, viewVars, addVars>>

\* a day passes
Tick ==
  /\ now < MaxDay
  /\ now' = now + 1
  /\ UNCHANGED <<db, pc, call, tx, result, attempts>>
  /\ UNCHANGED <<matcherVars, viewVars, addVars>>

\* the invitations asked for: the default role on one tree, another role on the other
InviteInputs == { <<"T1", VIEWER>>, <<"T2", EDITOR>> }

InitInvite ==
  /\ db = [users |-> << >>, trees |-> TreeIds, members |-> DependentsMembers,
           merges |-> [m \in MergeIds |-> NoRow],
           invites |-> [i \in InviteIds |-> NoRow], access |-> {}]
  /\ pc = [p \in Procs |-> "idle"]
  /\ call = [p \in Procs |-> NoCall]
  /\ tx = [p \in Procs |-> NoTx]
  /\ result = "none"
  /\ attempts = [m \in MergeIds |-> 0]
  /\ now = 0
  /\ MatcherIdle /\ ViewIdle /\ AddIdle

NextInvite ==
  \/ \E inv \in InviteInputs : create_invite(inv[1], inv[2])
  \/ \E p \in Procs, inviteId \in InviteIds, userId \in UserIds :
       accept_invite(p, inviteId, userId)
  \/ \E p \in Procs : accept_invite_create(p)
  \/ \E p \in Procs : accept_invite_delete(p)
  \/ Tick

SpecInvite == InitInvite /\ [][NextInvite]_vars

\* the row acceptInvite creates for the call of p
GrantOf(p) == [treeId |-> call[p].treeId, userId |-> call[p].user, role |-> call[p].role]

\* a call of acceptInvite that passed the expiry check returns or throws
AcceptEnds(p) == pc[p] \in {"ai_create", "ai_delete"} /\ pc'[p] = "idle"

(* C16: redeeming an unexpired invite grants the redeeming user a TreeAccess
   row on the invite's tree with the invite's role and deletes the Invite, and
   a later acceptInvite with the same invite id fails and grants nothing.     *)
C16_RedeemGrantsAndDeletes ==
  [][/\ \A p \in Procs :
          AcceptEnds(p) => /\ GrantOf(p) \in db'.access
                           /\ ~LiveInvite(db', call[p].inviteId)
     /\ \A p \in Procs, inviteId \in InviteIds, userId \in UserIds :
          (accept_invite(p, inviteId, userId) /\ db.invites[inviteId] = Gone)
            => result' = "NOT_FOUND" /\ db' = db /\ pc' = pc]_vars

(* C17: an invite expires 7 days after its creation: acceptInvite on an invite
   older than that fails with the expiry error and creates no TreeAccess row,
   and up to the seventh day it is not refused as expired.                    *)
C17_ExpiresAfterSevenDays ==
  [][/\ \A i \in InviteIds :
          (db.invites[i] = NoRow /\ db'.invites[i] # NoRow)
            => db'.invites[i].expiresAt = now + 7
     /\ \A p \in Procs, inviteId \in InviteIds, userId \in UserIds :
          (accept_invite(p, inviteId, userId) /\ LiveInvite(db, inviteId))
            => IF now > db.invites[inviteId].expiresAt
               THEN result' = "EXPIRED" /\ db' = db /\ pc' = pc
               ELSE pc'[p] = "ai_create" /\ result' = result]_vars

C17_Witness ==
  /\ result = "EXPIRED"
  /\ now = 8
  /\ \E i \in InviteIds : LiveInvite(db, i) /\ db.invites[i].expiresAt = 7
  /\ db.access = {}

-----------------------------------------------------------------------------
\* the validation of approveMerge that the record m fails for the user u
FailureCase(m, u) ==
  IF db.merges[m] = NoRow THEN "NOT_FOUND"
  ELSE IF db.merges[m].approverId # u THEN "UNAUTHORIZED"
  ELSE IF db.merges[m].status # PENDING THEN "INVALID_STATE"
  ELSE "NONE"

(* C18: approveMerge called with an id for which no TreeMerge record exists
   fails with NOT_FOUND and changes nothing in the store; in none of the three
   failure cases (not found, unauthorized, not pending) does approveMerge
   return success or start its transaction: the call ends with the failure.  *)
C18_FailuresSurfaced ==
  [][\A p \in Procs, u \in UserIds, m \in MergeIds :
       (confirm_merge(p, u, m) /\ FailureCase(m, u) # "NONE")
         => /\ result' = FailureCase(m, u)
            /\ result' # "ok"
            /\ db' = db
            /\ pc'[p] = "idle" /\ tx' = tx]_vars

C18_Witness ==
  /\ result = "NOT_FOUND"
  /\ \A m \in MergeIds : db.merges[m] = NoRow
  /\ \A p \in Procs : pc[p] = "idle"

-----------------------------------------------------------------------------
(* C20: in every reachable state each relation edge joins exactly two distinct
   members of the store, and no unordered pair of members is joined by more
   than one edge (the table holds at most one of the rows (a, b) and (b, a)). *)
C20_EdgesJoinDistinctPairs ==
  \A e \in rel :
    /\ e[1] \in 1..Len(fam) /\ e[2] \in 1..Len(fam)
    /\ e[1] # e[2]
    /\ << e[2], e[1] >> \notin rel

C20_Witness ==
  /\ outcome = "LINKED"
  /\ Cardinality(rel) >= 2
  /\ \E a \in FamIds : Cardinality(relatedFrom(rel, a)) >= 2

-----------------------------------------------------------------------------
(* SpecRemove: the add dialogue together with the remove_member callback    *)

\* FamilyMember.id @default(uuid()): the text of the id of row k; like every
\* uuid it holds hyphens
DigitChar(k) == CHOOSE c \in DOMAIN DigitValue : DigitValue[c] = k
uuid(k) == << DigitChar(k), "-", "4" >>

\* /^remove_member_(\d+)$/ : the part after the prefix is one or more digits
matchDigits(data) ==
  Len(data) >= 1 /\ \A i \in 1..Len(data) : data[i] \in DOMAIN DigitValue

\* a row of family_members that is stored
Exists(f, k) == k \in 1..Len(f) /\ f[k] # Gone

\* familyMember.findUnique where id
findUniqueMember(f, id) == { k \in 1..Len(f) : f[k] # Gone /\ uuid(k) = id }

\* familyMember.delete: "_FamilyRelations_A_fkey" and "_FamilyRelations_B_fkey"
\* are ON DELETE CASCADE
deleteCascade(r, k) == { e \in r : e[1] # k /\ e[2] # k }

\* callback data after "remove_member_": the buttons of /remove_relation carry
\* the ids of the user's members; a digit text comes from no button of the bot
RemoveData == { uuid(k) : k \in FamIds } \cup { << "1" >> }

\* a callback query remove_member_<data>
remove_member(data) ==
  /\ \A k \in FamIds : data = uuid(k) => k \in 1..Len(fam)
  /\ IF ~matchDigits(data)
     THEN \* no bot.action pattern matches: the query is dropped
          /\ outcome' = "NO_HANDLER"
          /\ UNCHANGED <<fam, rel>>
     ELSE IF findUniqueMember(fam, data) = {}
     THEN /\ outcome' = "MEMBER_NOT_FOUND"
          /\ UNCHANGED <<fam, rel>>
     ELSE LET k == CHOOSE m \in findUniqueMember(fam, data) : TRUE
          IN  /\ fam' = [fam EXCEPT ![k] = Gone]
              /\ rel' = deleteCascade(rel, k)
              /\ outcome' = "REMOVED"
  /\ UNCHANGED <<ustate, sel, validated>>
  /\ UNCHANGED mergeVars /\ UNCHANGED matcherVars /\ UNCHANGED viewVars

NextRemove ==
  \/ NextAdd
  \/ \E data \in RemoveData : remove_member(data)

SpecRemove == InitAdd /\ [][NextRemove]_vars

(* C21: after any sequence of member additions and removals both endpoints of
   every stored edge are existing members (deleting a member deletes every
   edge incident to it).                                                      *)
C21_EdgeEndpointsExist ==
  \A e \in rel : Exists(fam, e[1]) /\ Exists(fam, e[2])

C21_Witness ==
  /\ outcome = "NO_HANDLER"
  /\ rel # {}
  /\ \A k \in 1..Len(fam) : Exists(fam, k)

-----------------------------------------------------------------------------
\* the text is a decimal number: an optional sign and digits, nothing else
IsNumber(text) ==
  LET d == IF Len(text) >= 1 /\ text[1] \in {"+", "-"} THEN 2 ELSE 1
  IN  /\ d <= Len(text)
      /\ \A i \in d..Len(text) : text[i] \in DOMAIN DigitValue

\* the birth-year input the claim calls acceptable
AcceptableYear(text) ==
  /\ IsNumber(text)
  /\ parseInt(text)[1] >= 1900
  /\ parseInt(text)[1] <= CurrentYear

(* C22: every member created through the add dialogue has a birth year within
   [1900, current year], and a birth-year input that is not a number, is below
   1900 or is above the current year never results in a stored member.        *)
C22_BirthYearValidated ==
  [][/\ \A k \in 1..Len(fam') :
          /\ fam'[k].birthYear # NoYear
          /\ fam'[k].birthYear[1] >= 1900
          /\ fam'[k].birthYear[1] <= CurrentYear
     /\ \A birthYear \in YearTexts :
          (AddCommandHandler_handleBirthYearInput(birthYear) /\ ~AcceptableYear(birthYear))
            => fam' = fam]_vars

\* the year the handler reads from the text is refused
RejectedYear(text) ==
  \/ parseInt(text) = NaN
  \/ parseInt(text)[1] < 1900
  \/ parseInt(text)[1] > CurrentYear

\* the dialogue waits for the birth year with relation type and name entered
AwaitingYear ==
  /\ Adding /\ ustate.step = "enter_birth_year"
  /\ ustate.data.relationType # Undefined /\ ustate.data.name # Undefined

(* C23: a rejected birth-year input leaves the user's conversational state
   unchanged (action adding_member, step enter_birth_year, same relationType
   and name) and stores nothing, and a valid year sent after a rejection
   creates the member with the name and relation type entered before.        *)
C23_RejectedYearKeepsState ==
  [][\A birthYear \in YearTexts :
       (AddCommandHandler_handleBirthYearInput(birthYear) /\ AwaitingYear)
         => IF RejectedYear(birthYear)
            THEN /\ outcome' = "INVALID_YEAR"
                 /\ ustate' = ustate /\ AwaitingYear'
                 /\ fam' = fam
            ELSE outcome = "INVALID_YEAR"
                   => /\ Len(fam') = Len(fam) + 1
                      /\ fam'[Len(fam')].fullName = ustate.data.name[1]
                      /\ fam'[Len(fam')].relationType = ustate.data.relationType[1]
                      /\ fam'[Len(fam')].birthYear = parseInt(birthYear)]_vars

C23_Witness ==
  /\ outcome = "INVALID_YEAR"
  /\ AwaitingYear
  /\ ustate.data.relationType = Some(MOTHER) /\ ustate.data.name = Some("Ali")
  /\ Len(fam) = 1

-----------------------------------------------------------------------------
(* SpecTextTree: TreeVisualizationService.generateTextTree on a member list *)

MaxEdges == 2        \* _FamilyRelations rows of the member lists the views are built on

\* findMany / include { relatedTo: true, relatedFrom: true }: the members with
\* the ids of both sides of their relation
Include(f, r) ==
  [k \in 1..Len(f) |->
     [id |-> k, relationType |-> f[k].relationType,
      relatedTo |-> relatedTo(r, k), relatedFrom |-> relatedFrom(r, k)]]

\* for (const member of members) switch (member.relationType)
RECURSIVE groupFrom(_, _, _)
groupFrom(members, i, grouped) ==
  IF i > Len(members) THEN grouped
  ELSE LET member == members[i]
       IN  groupFrom(members, i + 1,
             IF member.relationType \in {FATHER, MOTHER}
             THEN [grouped EXCEPT !.parents = Append(@, member)]
             ELSE IF member.relationType = SIBLING
             THEN [grouped EXCEPT !.siblings = Append(@, member)]
             ELSE IF member.relationType = SPOUSE
             THEN [grouped EXCEPT !.spouse = << member >>]
             ELSE IF member.relationType = CHILD
             THEN [grouped EXCEPT !.children = Append(@, member)]
             ELSE grouped)

groupMembersByRelationType(members) ==
  groupFrom(members, 1,
            [parents |-> << >>, siblings |-> << >>, spouse |-> << >>,
             children |-> << >>])

\* (a mutant: only the relatedTo side is looked up)
getRelatedMembersOneSide(member, allMembers) ==
  SelectSeq(allMembers, LAMBDA m : m.id \in member.relatedTo)

\* allMembers.filter(m => relatedIds.has(m.id)), relatedIds the ids of both sides
getRelatedMembers(member, allMembers) ==
  LET relatedIds == member.relatedTo \cup member.relatedFrom
  IN  SelectSeq(allMembers, LAMBDA m : m.id \in relatedIds)

\* the lines of one member: the member and its 'related to' annotations
formatMemberWithRelations(member, allMembers) ==
  LET relatedMembers == getRelatedMembers(member, allMembers)
  IN  [kind |-> "member", section |-> "none", id |-> member.id,
       related |-> [i \in 1..Len(relatedMembers) |-> relatedMembers[i].id]]

Header(section) == [kind |-> "header", section |-> section, id |-> 0, related |-> << >>]
EmptyTree == << [kind |-> "empty", section |-> "none", id |-> 0, related |-> << >>] >>

\* a section of the text: its title and one entry per member of the bucket
TextSection(section, bucket, members) ==
  IF Len(bucket) > 0
  THEN << Header(section) >> \o
       [i \in 1..Len(bucket) |-> formatMemberWithRelations(bucket[i], members)]
  ELSE << >>

\* (a mutant without the test for the empty list)
generateTextTreeNoEmptyTest(members) ==
  LET membersByType == groupMembersByRelationType(members)
  IN  TextSection("parents", membersByType.parents, members) \o
      TextSection("siblings", membersByType.siblings, members) \o
      TextSection("spouse", membersByType.spouse, members) \o
      TextSection("children", membersByType.children, members)

\* (a mutant that shows the children before the spouse)
generateTextTreeChildrenFirst(members) ==
  IF Len(members) = 0 THEN EmptyTree
  ELSE LET membersByType == groupMembersByRelationType(members)
       IN  TextSection("parents", membersByType.parents, members) \o
           TextSection("siblings", membersByType.siblings, members) \o
           TextSection("children", membersByType.children, members) \o
           TextSection("spouse", membersByType.spouse, members)

\* generateTextTree: parents, siblings, spouse, children
generateTextTree(members) ==
  IF Len(members) = 0 THEN EmptyTree
  ELSE LET membersByType == groupMembersByRelationType(members)
       IN  TextSection("parents", membersByType.parents, members) \o
           TextSection("siblings", membersByType.siblings, members) \o
           TextSection("spouse", membersByType.spouse, members) \o
           TextSection("children", membersByType.children, members)

\* the member lists the views are built on: up to MaxFam members of any
\* relation type, and up to MaxEdges relation rows, also to members outside
\* the list
ViewMember(relationType) ==
  [fullName |-> "Ali", birthYear |-> Year(1950), relationType |-> relationType,
   treeId |-> NULL]
ViewLists(types) ==
  UNION { [1..n -> { ViewMember(t) : t \in types }] : n \in 0..MaxFam }
ViewEdges ==
  { r \in SUBSET { e \in FamIds \X FamIds : e[1] # e[2] } : Cardinality(r) <= MaxEdges }

InitTextTree ==
  /\ fam \in ViewLists(RelationType)
  /\ rel \in ViewEdges
  /\ ustate = NoState /\ sel = NoSel /\ outcome = "none" /\ validated = << >>
  /\ view = NoView
  /\ MergeIdle /\ MatcherIdle

\* one call of generateTextTree on the fetched members
generateTextTreeCall ==
  /\ view = NoView
  /\ view' = [kind |-> "text", tree |-> generateTextTree(Include(fam, rel))]
  /\ UNCHANGED mergeVars /\ UNCHANGED matcherVars /\ UNCHANGED addVars

NextTextTree == generateTextTreeCall

SpecTextTree == InitTextTree /\ [][NextTextTree]_vars

\* the text tree has been built; its lines, and the lines that show a member
Built == view.kind = "text"
Entries == { i \in 1..Len(view.tree) : view.tree[i].kind = "member" }

\* the section a line stands in: the title above it
SectionOf(i) ==
  LET titles == { j \in 1..i : view.tree[j].kind = "header" }
  IN  view.tree[CHOOSE j \in titles : \A h \in titles : h <= j].section

\* the section and the place in the bucket order of a relation type
BucketOf(relationType) ==
  IF relationType \in {FATHER, MOTHER} THEN "parents"
  ELSE IF relationType = SIBLING THEN "siblings"
  ELSE IF relationType = SPOUSE THEN "spouse"
  ELSE "children"
BucketRank(relationType) ==
  IF relationType \in {FATHER, MOTHER} THEN 1
  ELSE IF relationType = SIBLING THEN 2
  ELSE IF relationType = SPOUSE THEN 3
  ELSE 4

(* C24: the graph builder on an empty member list returns the explicit
   empty-tree result.                                                         *)
C24_EmptyListEmptyTree ==
  (Built /\ Len(fam) = 0) => view.tree = EmptyTree

C24_Witness == Built /\ Len(fam) = 0 /\ view.tree = EmptyTree

(* C25: when the member list holds several members of relation type SPOUSE the
   spouse bucket holds the first of them in input order.                      *)
C25_FirstSpouseWins ==
  Built => \A i \in Entries :
             SectionOf(i) = "spouse"
               => \A k \in 1..Len(fam) :
                    fam[k].relationType = SPOUSE => view.tree[i].id <= k

(* C26: the text tree honours the bucket order parents, siblings, spouse,
   children: every FATHER or MOTHER member is listed before every SIBLING
   member, those before the spouse, the spouse before every CHILD member, and
   each non-spouse member is listed exactly once, in the section of its own
   relation type.                                                             *)
C26_BucketOrder ==
  Built =>
    /\ \A i, j \in Entries :
         i < j => BucketRank(fam[view.tree[i].id].relationType)
                    <= BucketRank(fam[view.tree[j].id].relationType)
    /\ \A i \in Entries :
         SectionOf(i) = BucketOf(fam[view.tree[i].id].relationType)
    /\ \A k \in 1..Len(fam) :
         fam[k].relationType # SPOUSE
           => Cardinality({ i \in Entries : view.tree[i].id = k }) = 1

C26_Witness ==
  /\ Built /\ Len(fam) = 3
  /\ fam[1].relationType = CHILD /\ fam[2].relationType = SPOUSE
  /\ fam[3].relationType = MOTHER
  /\ Len(view.tree) = 6

\* the members of the list joined to member k by a relation row
Neighbours(k) ==
  { m \in 1..Len(fam) : << k, m >> \in rel \/ << m, k >> \in rel }
Annotated(i) == { view.tree[i].related[n] : n \in 1..Len(view.tree[i].related) }

(* C29: the 'related to' annotations of a member in the text tree are exactly
   the members of the list joined to it by an edge in either direction, each
   listed once, and they are symmetric between two rendered members.          *)
C29_AnnotationsAreNeighbours ==
  Built =>
    /\ \A i \in Entries :
         /\ Annotated(i) = Neighbours(view.tree[i].id)
         /\ Len(view.tree[i].related) = Cardinality(Annotated(i))
    /\ \A i, j \in Entries :
         view.tree[j].id \in Annotated(i) => view.tree[i].id \in Annotated(j)

C29_Witness ==
  /\ Built
  /\ \E i, j \in Entries :
       /\ << view.tree[j].id, view.tree[i].id >> \in rel
       /\ view.tree[j].id \in Annotated(i) /\ view.tree[i].id \in Annotated(j)
  /\ \E e \in rel : e[2] > Len(fam)

-----------------------------------------------------------------------------
(* SpecPdf: PdfExportService.buildTreeStructure and calculatePositions      *)

MaxTree      == 4    \* members of the tree that is exported
MaxTreeEdges == 4    \* _FamilyRelations rows among them
MaxStack     == 2 * (MaxTree + 1)   \* nested calls the call stack has room for

HORIZONTAL_SPACING == 250
VERTICAL_SPACING   == 150
TopY               == 600

\* tree.members with include { relatedTo: true, relatedFrom: true }
IncludeTree(f, r) ==
  [k \in 1..Len(f) |->
     [id |-> k, relationType |-> f[k].relationType,
      relatedTo   |-> { b \in 1..Len(f) : << k, b >> \in r },
      relatedFrom |-> { a \in 1..Len(f) : << a, k >> \in r }]]

\* (a mutant: a father or mother counts as a parent)
isParentFatherOrMother(related) == related.relationType \in {FATHER, MOTHER}

\* rel.relationType === 'PARENT'
isParent(related) == related.relationType = "PARENT"

\* member.relatedFrom.filter(rel => rel.relationType === 'PARENT')
parentsOf(members, member) ==
  { p \in member.relatedFrom : isParent(members[p]) }

\* buildTreeStructure: the roots, and per node the children pushed to it, both
\* in the order of the member list
buildTreeStructure(members) ==
  [roots    |-> SelectSeq([k \in 1..Len(members) |-> k],
                          LAMBDA k : parentsOf(members, members[k]) = {}),
   children |-> [p \in 1..Len(members) |->
                   SelectSeq([k \in 1..Len(members) |-> k],
                             LAMBDA k : p \in parentsOf(members, members[k]))]]

\* calculatePositions(nodes, level, x) from the i-th node on: the positions.set
\* calls in their order, and whether the recursion ran out of stack
RECURSIVE calculateFrom(_, _, _, _, _)
calculateFrom(children, nodes, i, level, currentX) ==
  IF level > MaxStack THEN [placed |-> << >>, overflow |-> TRUE]
  ELSE IF i > Len(nodes) THEN [placed |-> << >>, overflow |-> FALSE]
  ELSE LET node == nodes[i]
           here == << [id |-> node, level |-> level, x |-> currentX,
                       y |-> TopY - level * VERTICAL_SPACING] >>
           below == IF Len(children[node]) > 0
                    THEN calculateFrom(children, children[node], 1, level + 1, currentX)
                    ELSE [placed |-> << >>, overflow |-> FALSE]
       IN  IF below.overflow
           THEN [placed |-> here \o below.placed, overflow |-> TRUE]
           ELSE LET rest == calculateFrom(children, nodes, i + 1, level,
                                          currentX + HORIZONTAL_SPACING)
                IN  [placed |-> here \o below.placed \o rest.placed,
                     overflow |-> rest.overflow]

calculatePositions(treeStructure) ==
  calculateFrom(treeStructure.children, treeStructure.roots, 1, 0, 0)

\* the trees that are exported: up to MaxTree members and up to MaxTreeEdges
\* relation rows among them, cycles and several parents included
TreeLists ==
  UNION { [1..n -> { ViewMember(t) : t \in {FATHER, CHILD} }] : n \in 0..MaxTree }
TreeEdges(n) ==
  { r \in SUBSET { e \in (1..n) \X (1..n) : e[1] # e[2] } :
      Cardinality(r) <= MaxTreeEdges }

InitPdf ==
  /\ fam \in TreeLists
  /\ rel \in TreeEdges(Len(fam))
  /\ ustate = NoState /\ sel = NoSel /\ outcome = "none" /\ validated = << >>
  /\ view = NoView
  /\ MergeIdle /\ MatcherIdle

\* generateTreePdf: buildTreeStructure(tree.members), calculatePositions
generateTreePdf ==
  /\ view = NoView
  /\ LET treeStructure == buildTreeStructure(IncludeTree(fam, rel))
         positions     == calculatePositions(treeStructure)
     IN  view' = [kind |-> "pdf", roots |-> treeStructure.roots,
                  children |-> treeStructure.children,
                  placed |-> positions.placed, overflow |-> positions.overflow]
  /\ UNCHANGED mergeVars /\ UNCHANGED matcherVars /\ UNCHANGED addVars

NextPdf == generateTreePdf

SpecPdf == InitPdf /\ [][NextPdf]_vars

\* the hierarchical structure has been built
BuiltPdf == view.kind = "pdf"
Range(seq) == { seq[i] : i \in 1..Len(seq) }

\* the parents of member k among the tree's members: the members with an edge
\* to k whose relation type is a parent type
ParentsAmong(k) ==
  { p \in 1..Len(fam) : << p, k >> \in rel /\ fam[p].relationType \in {FATHER, MOTHER} }

(* C27: in the hierarchical structure the root nodes are exactly the members
   with no incoming parent edge, and every member that has a parent among the
   tree's members appears in that parent's children, one generation band
   below it, rather than as a root.                                           *)
C27_RootsAndChildren ==
  BuiltPdf =>
    /\ Range(view.roots) = { k \in 1..Len(fam) : ParentsAmong(k) = {} }
    /\ \A k \in 1..Len(fam) : \A p \in ParentsAmong(k) :
         /\ k \in Range(view.children[p])
         /\ k \notin Range(view.roots)
         /\ \A i \in 1..Len(view.placed) :
              view.placed[i].id = p
                => \E j \in 1..Len(view.placed) :
                     /\ view.placed[j].id = k
                     /\ view.placed[j].level = view.placed[i].level + 1

(* C28: the graph builder terminates on every member set, also when the edges
   contain a cycle or link a member to more than two parents, and no member is
   placed twice in one generation band.                                       *)
C28_TerminatesPlacesOnce ==
  BuiltPdf =>
    /\ ~view.overflow
    /\ \A i, j \in 1..Len(view.placed) :
         (view.placed[i].id = view.placed[j].id
            /\ view.placed[i].level = view.placed[j].level) => i = j

C28_Witness ==
  /\ BuiltPdf /\ Len(fam) = 4
  /\ rel = { << 1, 4 >>, << 2, 4 >>, << 3, 4 >>, << 4, 1 >> }
  /\ \A k \in 1..3 : fam[k].relationType = FATHER
  /\ Len(view.placed) = 4

-----------------------------------------------------------------------------
(* SpecStart: /start handlers that find or create the User of a telegramId  *)

MAX_RETRIES == 3

\* the users rows with this telegramId
UsersOf(d, telegramId) ==
  { i \in 1..Len(d.users) : d.users[i] = telegramId }

\* (a mutant: the table has no unique index)
UniqueViolationNever(d, telegramId) == FALSE

\* users_telegramId_key: a second row with the telegramId is refused
UniqueViolation(d, telegramId) == UsersOf(d, telegramId) # {}

\* /start: handle up to retryOperation(...)
start(p, telegramId) ==
  /\ pc[p] = "idle"
  /\ pc' = [pc EXCEPT ![p] = "st_find"]
  /\ call' = [call EXCEPT ![p] =
                [op |-> "start", telegramId |-> telegramId, retries |-> MAX_RETRIES]]
  /\ UNCHANGED <<db, tx, result, attempts, now>>
  /\ UNCHANGED <<matcherVars, viewVars, addVars>>

\* the operation: user.findUnique where telegramId; return the user if found
start_find(p) ==
  /\ pc[p] = "st_find"
  /\ IF UsersOf(db, call[p].telegramId) # {}
     THEN /\ result' = "ok"
          /\ pc' = [pc EXCEPT ![p] = "idle"]
          /\ call' = [call EXCEPT ![p] = NoCall]
     ELSE /\ pc' = [pc EXCEPT ![p] = "st_create"]
          /\ UNCHANGED <<call, result>>
  /\ UNCHANGED <<db, tx, attempts, now>>
  /\ UNCHANGED <<matcherVars, viewVars, addVars>>

\* the operation: user.create; retryOperation catches what it throws and, with
\* retries left, waits and runs the operation again
start_create(p) ==
  /\ pc[p] = "st_create"
  /\ IF UniqueViolation(db, call[p].telegramId)
     THEN IF call[p].retries = 0
          THEN /\ result' = "MAX_RETRIES_EXCEEDED"
               /\ pc' = [pc EXCEPT ![p] = "idle"]
               /\ call' = [call EXCEPT ![p] = NoCall]
               /\ UNCHANGED db
          ELSE /\ call' = [call EXCEPT ![p].retries = @ - 1]
               /\ pc' = [pc EXCEPT ![p] = "st_find"]
               /\ UNCHANGED <<db, result>>
     ELSE /\ db' = [db EXCEPT !.users = Append(@, call[p].telegramId)]
          /\ result' = "ok"
          /\ pc' = [pc EXCEPT ![p] = "idle"]
          /\ call' = [call EXCEPT ![p] = NoCall]
  /\ UNCHANGED <<tx, attempts, now>>
  /\ UNCHANGED <<matcherVars, viewVars, addVars>>

InitStart ==
  /\ db = [users |-> << >>, trees |-> {}, members |-> << >>,
           merges |-> [m \in MergeIds |-> NoRow],
           invites |-> [i \in InviteIds |-> NoRow], access |-> {}]
  /\ pc = [p \in Procs |-> "idle"]
  /\ call = [p \in Procs |-> NoCall]
  /\ tx = [p \in Procs |-> NoTx]
  /\ result = "none"
  /\ attempts = [m \in MergeIds |-> 0]
  /\ now = 0
  /\ MatcherIdle /\ ViewIdle /\ AddIdle

NextStart ==
  \/ \E p \in Procs, telegramId \in UserIds : start(p, telegramId)
  \/ \E p \in Procs : start_find(p)
  \/ \E p \in Procs : start_create(p)

SpecStart == InitStart /\ [][NextStart]_vars

\* the find-or-create of the /start handler p returns or throws
StartEnds(p) == pc[p] \in {"st_find", "st_create"} /\ pc'[p] = "idle"

(* C30: the store holds at most one User per telegramId in every reachable
   state, and /start handlers that run concurrently for the same unknown
   telegramId all complete successfully and leave exactly one User row: the
   loser of the find-then-create race recovers through the retry.            *)
C30_OneUserPerTelegramId ==
  [][/\ \A telegramId \in UserIds :
          /\ Cardinality(UsersOf(db, telegramId)) <= 1
          /\ Cardinality(UsersOf(db', telegramId)) <= 1
     /\ \A p \in Procs :
          StartEnds(p) => /\ result' = "ok"
                          /\ Cardinality(UsersOf(db', call[p].telegramId)) = 1]_vars

\* the loser of the race: its create was refused, and its retry is about to
\* find the row the winner created
C30_Witness ==
  \E p, q \in Procs :
    /\ p # q
    /\ pc[p] = "st_find" /\ call[p].retries = MAX_RETRIES - 1
    /\ pc[q] = "idle" /\ result = "ok"
    /\ Cardinality(UsersOf(db, call[p].telegramId)) = 1
    /\ Len(db.users) = 1

\* ---------------------------------------------------------------------------
\* Concurrent approvals of one merge
\* ---------------------------------------------------------------------------

\* the approveMerge calls of the recorded approver on merge m that overlap the
\* call of p: still inside their transaction when p ends
Overlapping(p, m) ==
  { q \in Procs \ {p} : pc[q] \in TxSteps /\ call[q].mergeId = m }

\* C31: approveMerge calls for the same PENDING merge that run concurrently,
\* both by the recorded approver: a call returns success only while the record
\* is still PENDING (so at most one does), a member's treeId changes only in the
\* step that commits a successful call, and a call that fails leaves the store
\* as it was, whether or not another call is still running.
C31_ConcurrentApprovals ==
  [][/\ \A p \in Procs :
          LeavesTx(p)
            => /\ result' = "ok" => /\ StatusOf(db, call[p].mergeId) = PENDING
                                    /\ StatusOf(db', call[p].mergeId) = APPROVED
               /\ result' # "ok" => db' = db
     /\ \A k \in MemberIds :
          TreeOf(db', k) # TreeOf(db, k)
            => \E p \in Procs :
                 /\ LeavesTx(p) /\ result' = "ok"
                 /\ TreeOf(db, k) = call[p].source]_vars

\* two calls passed the validation for the same merge; one has failed at the
\* delete and was rolled back while the other is still inside its transaction
C31_Witness ==
  /\ result = "FK_VIOLATION"
  /\ \E m \in MergeIds, q \in Procs :
       /\ attempts[m] = 1
       /\ pc[q] \in TxSteps /\ call[q].mergeId = m
       /\ StatusOf(db, m) = PENDING

\* ---------------------------------------------------------------------------
\* Concurrent redemption of one invite
\* ---------------------------------------------------------------------------

\* the call of p adds its TreeAccess row in this step
CreatesGrant(p) == pc[p] = "ai_create" /\ pc'[p] = "ai_delete"

\* a row has been created from invite i already: the invite was deleted by the
\* call that created the row, or such a call stands before its invite.delete
Redeemed(i) ==
  \/ ~LiveInvite(db, i)
  \/ \E q \in Procs : pc[q] = "ai_delete" /\ call[q].inviteId = i

\* C32: an invite grants access at most once in every interleaving: of the
\* acceptInvite calls for one unexpired invite, also concurrent ones by
\* different users, at most one creates a TreeAccess row from that invite.
C32_InviteGrantsOnce ==
  [][\A p \in Procs : CreatesGrant(p) => ~Redeemed(call[p].inviteId)]_vars

-----------------------------------------------------------------------------
(* SpecSubmit: AddCommandHandler.handleBirthYearInput step by step, so that *)
(* two text updates of one user interleave at its awaits                    *)

\* relation types the user picks in this specification
SubmitTypes == {FATHER, SPOUSE}

\* bot.on('text'): getState, action adding_member, step enter_birth_year; the
\* handler runs up to its first await (ensureUserExists)
text_birth_year(p, birthYear) ==
  /\ pc[p] = "idle"
  /\ Adding /\ ustate.step = "enter_birth_year"
  /\ pc' = [pc EXCEPT ![p] = "by_state"]
  /\ call' = [call EXCEPT ![p] = [op |-> "handleBirthYearInput",
                                  birthYear |-> birthYear]]
  /\ UNCHANGED <<db, tx, result, attempts, now>>
  /\ UNCHANGED <<matcherVars, viewVars, addVars>>

\* getState, the test for relationType and name, parseInt and the range check,
\* up to the await of user.findUnique
by_getState(p) ==
  /\ pc[p] = "by_state"
  /\ LET year == parseInt(call[p].birthYear)
     IN  IF \/ ustate = NoState
            \/ ustate.data.relationType = Undefined
            \/ ustate.data.name = Undefined
         THEN /\ pc' = [pc EXCEPT ![p] = "by_menu"]
              /\ UNCHANGED <<call, outcome, validated>>
         ELSE IF InvalidYear(year)
         THEN /\ Reply("INVALID_YEAR")
              /\ pc' = [pc EXCEPT ![p] = "idle"]
              /\ call' = [call EXCEPT ![p] = NoCall]
         ELSE /\ pc' = [pc EXCEPT ![p] = "by_create"]
              /\ call' = [call EXCEPT ![p] = [op |-> "handleBirthYearInput",
                                              birthYear |-> call[p].birthYear,
                                              data |-> ustate.data,
                                              year |-> year]]
              /\ UNCHANGED <<outcome, validated>>
  /\ UNCHANGED <<fam, rel, ustate, sel>>
  /\ UNCHANGED <<db, tx, result, attempts, now>>
  /\ UNCHANGED matcherVars /\ UNCHANGED viewVars

\* showRelationSelectionMenu after its await: setState and the menu
by_menu(p) ==
  /\ pc[p] = "by_menu"
  /\ ustate' = showRelationSelectionMenu(ustate)
  /\ Reply("ASK_RELATION")
  /\ pc' = [pc EXCEPT ![p] = "idle"]
  /\ call' = [call EXCEPT ![p] = NoCall]
  /\ UNCHANGED <<fam, rel, sel>>
  /\ UNCHANGED <<db, tx, result, attempts, now>>
  /\ UNCHANGED matcherVars /\ UNCHANGED viewVars

\* familyMember.create from the state the handler has read
by_create(p) ==
  /\ pc[p] = "by_create"
  /\ Len(fam) < MaxFam
  /\ fam' = Append(fam, NewMember(call[p].data, call[p].year))
  /\ pc' = [pc EXCEPT ![p] = "by_reply"]
  /\ UNCHANGED <<rel, ustate, sel, outcome, validated>>
  /\ UNCHANGED <<db, call, tx, result, attempts, now>>
  /\ UNCHANGED matcherVars /\ UNCHANGED viewVars

\* ui.sendMessage resolves, then clearState
by_reply(p) ==
  /\ pc[p] = "by_reply"
  /\ ustate' = clearState
  /\ Reply("CREATED")
  /\ pc' = [pc EXCEPT ![p] = "idle"]
  /\ call' = [call EXCEPT ![p] = NoCall]
  /\ UNCHANGED <<fam, rel, sel>>
  /\ UNCHANGED <<db, tx, result, attempts, now>>
  /\ UNCHANGED matcherVars /\ UNCHANGED viewVars

\* ui.sendMessage rejects (ctx.reply throws): the catch block logs and calls
\* errorHandler.handleError; clearState is not reached
by_reply_fail(p) ==
  /\ pc[p] = "by_reply"
  /\ Reply("ERROR")
  /\ pc' = [pc EXCEPT ![p] = "idle"]
  /\ call' = [call EXCEPT ![p] = NoCall]
  /\ UNCHANGED <<fam, rel, ustate, sel>>
  /\ UNCHANGED <<db, tx, result, attempts, now>>
  /\ UNCHANGED matcherVars /\ UNCHANGED viewVars

NextSubmit ==
  \/ add_command
  \/ \E relationType \in SubmitTypes : relation_callback(relationType)
  \/ \E name \in NameTexts : AddCommandHandler_handleNameInput(name)
  \/ text_ignored
  \/ \E p \in Procs, birthYear \in YearTexts : text_birth_year(p, birthYear)
  \/ \E p \in Procs : by_getState(p)
  \/ \E p \in Procs : by_menu(p)
  \/ \E p \in Procs : by_create(p)
  \/ \E p \in Procs : by_reply(p)
  \/ \E p \in Procs : by_reply_fail(p)

SpecSubmit == InitStart /\ [][NextSubmit]_vars

\* the run of p inserts its member in this step
Creates(p) == pc[p] = "by_create" /\ pc'[p] = "by_reply"

\* the run of q has inserted a member from the state the run of p has read, and
\* that state is still the one stored for the user
InsertedFromSameState(p, q) ==
  /\ pc[q] = "by_reply"
  /\ call[q].data = call[p].data
  /\ ustate # NoState
  /\ ustate.step = "enter_birth_year"
  /\ ustate.data = call[p].data

\* C33: each completed add dialogue creates exactly one member, also when the
\* final birth-year message is handled twice concurrently (double-submit): no
\* run inserts a member from a stored dialogue state from which another run
\* has inserted one already.
C33_OneMemberPerDialogue ==
  [][\A p \in Procs :
       Creates(p) => \A q \in Procs \ {p} : ~InsertedFromSameState(p, q)]_vars

\* C34: after every successful member creation the user's state is cleared,
\* also when sending the confirmation reply fails: the run that created a
\* member ends with no state stored for the user, so a further text creates no
\* member until a relation type is chosen again.
C34_StateClearedAfterCreation ==
  [][\A p \in Procs :
       (pc[p] = "by_reply" /\ pc'[p] = "idle") => ustate' = NoState]_vars

\* C35: /add discards everything from a previous unfinished dialogue: directly
\* after AddCommandHandler.handle the state is (adding_member, select_relation)
\* and its data holds no relationType, no name and no birthYear.
C35_AddDiscardsPreviousDialogue ==
  [][add_command => /\ ustate'.action = "adding_member"
                    /\ ustate'.step = "select_relation"
                    /\ \A k \in DataKeys : ustate'.data[k] = Undefined]_vars

-----------------------------------------------------------------------------
(* SpecRetry: retryOperation of BaseCommandHandler and of TelegramService   *)

\* the two classes that define retryOperation
RetryOwners == {"BaseCommandHandler", "TelegramService"}

\* (a mutant: the test lets one more attempt through)
ExhaustedBelowZero(retries) == retries < 0

\* if (retries === 0)
Exhausted(retries) == retries = 0

\* what the call throws when the last attempt has failed: BaseCommandHandler
\* wraps the error in a TelegramBotError, TelegramService rethrows it
Thrown(owner) ==
  IF owner = "BaseCommandHandler" THEN "MAX_RETRIES_EXCEEDED" ELSE "OPERATION_ERROR"

\* retryOperation(operation) with the default retries = MAX_RETRIES; invoked
\* counts the calls of operation() made so far
retryOperation(p, owner) ==
  /\ pc[p] = "idle"
  /\ pc' = [pc EXCEPT ![p] = "ro_try"]
  /\ call' = [call EXCEPT ![p] = [op |-> "retryOperation", owner |-> owner,
                                  retries |-> MAX_RETRIES, invoked |-> 0]]
  /\ UNCHANGED <<db, tx, result, attempts, now>>
  /\ UNCHANGED <<matcherVars, viewVars, addVars>>

\* return await operation(): the operation resolves
operation_resolves(p) ==
  /\ pc[p] = "ro_try"
  /\ result' = "ok"
  /\ pc' = [pc EXCEPT ![p] = "idle"]
  /\ call' = [call EXCEPT ![p] = NoCall]
  /\ UNCHANGED <<db, tx, attempts, now>>
  /\ UNCHANGED <<matcherVars, viewVars, addVars>>

\* the operation rejects: the catch block throws when no retry is left and
\* starts the delay otherwise
operation_rejects(p) ==
  /\ pc[p] = "ro_try"
  /\ IF Exhausted(call[p].retries)
     THEN /\ result' = Thrown(call[p].owner)
          /\ pc' = [pc EXCEPT ![p] = "idle"]
          /\ call' = [call EXCEPT ![p] = NoCall]
     ELSE /\ pc' = [pc EXCEPT ![p] = "ro_delay"]
          /\ call' = [call EXCEPT ![p].invoked = @ + 1]
          /\ UNCHANGED result
  /\ UNCHANGED <<db, tx, attempts, now>>
  /\ UNCHANGED <<matcherVars, viewVars, addVars>>

\* the setTimeout of the delay fires: retryOperation(operation, retries - 1, delay)
retry_delay(p) ==
  /\ pc[p] = "ro_delay"
  /\ pc' = [pc EXCEPT ![p] = "ro_try"]
  /\ call' = [call EXCEPT ![p].retries = @ - 1]
  /\ UNCHANGED <<db, tx, result, attempts, now>>
  /\ UNCHANGED <<matcherVars, viewVars, addVars>>

NextRetry ==
  \/ \E p \in Procs, owner \in RetryOwners : retryOperation(p, owner)
  \/ \E p \in Procs : operation_resolves(p)
  \/ \E p \in Procs : operation_rejects(p)
  \/ \E p \in Procs : retry_delay(p)

SpecRetry == InitStart /\ [][NextRetry]_vars

\* every call of operation() settles and every timer fires
SpecRetryFair ==
  /\ SpecRetry
  /\ \A p \in Procs : /\ WF_vars(operation_resolves(p) \/ operation_rejects(p))
                      /\ WF_vars(retry_delay(p))

\* operation() is called in this step by the retryOperation of p
Invokes(p) == pc[p] = "ro_try" /\ pc'[p] # "ro_try"

\* C36: retryOperation invokes the operation at most 1 + MAX_RETRIES = 4 times,
\* returns the first success without a further attempt, fails only after the
\* fourth consecutive failure, and always terminates.
C36_RetryBounded ==
  /\ [][\A p \in Procs :
          Invokes(p)
            => /\ call[p].invoked + 1 <= MAX_RETRIES + 1
               /\ pc'[p] = "idle"
                    => \/ result' = "ok"
                       \/ /\ result' = Thrown(call[p].owner)
                          /\ call[p].invoked + 1 = MAX_RETRIES + 1
               /\ pc'[p] # "idle"
                    => /\ pc'[p] = "ro_delay"
                       /\ call'[p].invoked = call[p].invoked + 1
                       /\ result' = result]_vars
  /\ \A p \in Procs : (pc[p] \in {"ro_try", "ro_delay"}) ~> (pc[p] = "idle")

\* one call has failed after its last attempt while another stands before its
\* fourth call of the operation
C36_Witness ==
  /\ result \in {"MAX_RETRIES_EXCEEDED", "OPERATION_ERROR"}
  /\ \E p \in Procs : /\ pc[p] = "ro_try"
                      /\ call[p].invoked = MAX_RETRIES

=============================================================================
